---- MODULE Spec2Model ----
(***************************************************************************)
(* DaimaPay airtime gateway: the transaction lifecycle engine.             *)
(*                                                                         *)
(* The model follows the in-core variant of the engine:                    *)
(*   POST /stk-push                (src/server.js 1126-1209)               *)
(*   POST /stk-callback            (src/server.js 1213-1418), which marks  *)
(*        the payment RECEIVED_PENDING_FULFILLMENT and hands the request   *)
(*        to the unified fulfilment logic                                  *)
(*   processAirtimeFulfillment     (src/unnamed/part_001 669-1116)         *)
(*   updateCarrierFloatBalance     (src/unnamed/part_001 610-651)          *)
(*   POST /daraja-reversal-result  (src/unnamed/part_001 1576-1646)        *)
(*   POST /daraja-reversal-timeout (src/unnamed/part_001 1650-1703)        *)
(*                                                                         *)
(* and, beside them, the handlers of the same routes in part_001:          *)
(*   POST /stk-push                (src/unnamed/part_001 1141-1275)        *)
(*   POST /stk-callback            (src/unnamed/part_001 1428-1574)        *)
(*                                                                         *)
(* The bonus-settings endpoints (src/unnamed/part_001 1709-1781) are a     *)
(* specification of their own, BonusSpec.                                  *)
(*                                                                         *)
(* The ids of LocalIDs are the ids POST /stk-push of server.js generates   *)
(* and stores the request under; the ids of RailIDs are the                *)
(* CheckoutRequestIDs the rail assigns.  A callback may carry any id.      *)
(*                                                                         *)
(* Money is counted in mills (1 KES = 1000, 1 cent = 10), so that the      *)
(* two-decimal amounts of the source and the three-decimal raw bonus are   *)
(* integers here.  Percentages are counted in basis points (1% = 100).     *)
(* Phone numbers are sequences of digits.  Every await of the fulfilment   *)
(* that touches shared state is a step of its own, so that concurrent      *)
(* fulfilments interleave as the event loop lets them.                     *)
(***************************************************************************)
EXTENDS Integers, Sequences, FiniteSets, TLC

VARIABLES
    sales,          \* collection 'sales': request-id -> document
    transactions,   \* collection 'transactions': request-id -> status
    floats,         \* Saf_float/current and AT_Float/current
    bonusSettings,  \* airtime_bonuses/current_settings
    bonusHistory,   \* collection 'bonus_history', in the order written
    updates,        \* history: the bonus-settings updates handled so far
    reconciled,     \* collection 'reconciled_transactions'
    failedRecon,    \* collection 'failed_reconciliations'
    errors,         \* collection 'errors'
    timeouts,       \* collection 'reversal_timeouts'
    runs,           \* the invocations of processAirtimeFulfillment
    response,       \* the HTTP answer given last
    audit,          \* history: provider calls, debits, reversal requests
    delivered,      \* history: the callbacks delivered so far
    singleStatus,   \* history: status under first deliveries only
    ncallbacks,     \* number of callback deliveries so far
    npushes,        \* number of initiations so far
    push,           \* history: what the last initiation did at the rail
    request,        \* history: what the last initiation was asked for
    accepted,       \* history: the CheckoutRequestIDs the rail has issued
    now,                        \* Date.now(), in seconds
    cachedAirtimeToken,         \* the bearer token held in memory, 0 for null
    tokenExpiryTimestamp,
    cachedDealerServicePin,     \* the service PIN held in memory, "NONE" for null
    dealerPinExpiryTimestamp,
    credentialCalls             \* history: the credential requests made so far

\* The module-level variables of the credential caches (lines 138-139, 176-177)
credentialCache == <<now, cachedAirtimeToken, tokenExpiryTimestamp,
                     cachedDealerServicePin, dealerPinExpiryTimestamp,
                     credentialCalls>>

vars == <<sales, transactions, floats, bonusSettings, bonusHistory, updates, credentialCache, reconciled, failedRecon,
          errors, timeouts, runs, response, audit, delivered, singleStatus,
          ncallbacks, npushes, push, request, accepted>>

---------------------------------------------------------------------------
\* Bounds of the model

MaxRuns == 2

MaxCallbacks == 2

MaxPushes == 1

MaxUpdates == 2

\* The ids the server generates (src/server.js 1135)
LocalIDs == {"STK_1"}

\* The CheckoutRequestIDs the rail assigns
RailIDs == {"ws_CO_1"}

\* Request ids
IDs == LocalIDs \cup RailIDs

\* The ids the rail gives to the reversal requests it accepts
ConversationIDs == {"AG_1"}

\* The OriginatorConversationID of the rail's answer to the reversal request
\* for the transaction id: the request carries no such field, the rail
\* makes the id up
OriginatorConversationID(id) == CHOOSE c \in ConversationIDs : TRUE

\* The amounts (mills) a request or a payment callback may carry
Amounts == {3000, 10000}

\* Destination numbers: home telco, a competitor, and an unassigned prefix
SafaricomNumber == <<0, 7, 1, 2, 3, 4, 5, 6, 7, 8>>

AirtelNumber == <<2, 5, 4, 7, 3, 3, 1, 2, 3, 4, 5, 6>>

UnassignedNumber == <<0, 9, 9, 9, 1, 2, 3, 4, 5, 6>>

Recipients == {SafaricomNumber, AirtelNumber, UnassignedNumber}

\* The amounts (mills) an initiation may ask for: none, and the amounts at
\* and around the limits
PushAmounts == {0, 3000, 4000, 4990, 5000, 10000, 5000000, 5000010, 5001000}

\* Balances both float documents may hold when the server starts
InitialBalances == {15000, 25000}

\* One percent, in basis points
BasisPointsPerPercent == 100

\* Percentages (basis points) the bonus settings may hold: none, 4.75% and 5%
Percentages == {0, 475, 500}

\* Balances the dealer may report that differ from the local ledger
DriftBalances == {7000}

---------------------------------------------------------------------------
\* Program constants

MIN_AMOUNT == 5

MAX_AMOUNT == 5000

CentsPerKes == 100

\* The mills of a cent: the precision of the model below the cent
MillsPerCent == 10

\* One shilling, in mills
KES == CentsPerKes * MillsPerCent

CommissionPercent == 4

---------------------------------------------------------------------------
\* Carrier classifier

\* phoneNumber.replace(/^(\+254|254)/, '0'); the '+' sign is the digit 10
StripCountryCode(num) ==
    IF Len(num) >= 4 /\ num[1] = 10 /\ num[2] = 2 /\ num[3] = 5 /\ num[4] = 4
    THEN <<0>> \o SubSeq(num, 5, Len(num))
    ELSE IF Len(num) >= 3 /\ num[1] = 2 /\ num[2] = 5 /\ num[3] = 4
         THEN <<0>> \o SubSeq(num, 4, Len(num))
         ELSE num

safaricomPrefixes ==
    (110..119) \cup (700..729) \cup (740..746) \cup {748, 749}
        \cup (757..759) \cup {768, 769} \cup (790..799)

airtelPrefixes == (100..109) \cup (730..739) \cup (750..756) \cup (780..789)

telkomPrefixes == 770..779

equitelPrefixes == 764..767

faibaPrefixes == {747}

detectCarrier(phoneNumber) ==
    LET normalized == StripCountryCode(phoneNumber)
    IN  IF Len(normalized) # 10 \/ normalized[1] # 0
        THEN "Unknown"
        ELSE LET prefix3 == 100 * normalized[2] + 10 * normalized[3]
                                + normalized[4]
             IN  IF prefix3 \in safaricomPrefixes THEN "Safaricom"
                 ELSE IF prefix3 \in airtelPrefixes THEN "Airtel"
                 ELSE IF prefix3 \in telkomPrefixes THEN "Telkom"
                 ELSE IF prefix3 \in equitelPrefixes THEN "Equitel"
                 ELSE IF prefix3 \in faibaPrefixes THEN "Faiba"
                 ELSE "Unknown"

---------------------------------------------------------------------------
\* Bonus engine (processAirtimeFulfillment, lines 786-832)

\* Math.round(parseFloat(originalAmountPaid)), in KES
amountInt(mills) == (mills + KES \div 2) \div KES

\* customRound: fraction >= 0.5 rounds up, else down (mills -> mills)
customRound(value) ==
    LET decimalPart == value % KES
        integerPart == value - decimalPart
    IN  IF 2 * decimalPart >= KES THEN integerPart + KES
        ELSE integerPart

\* parseFloat(value.toFixed(2)): the nearest whole cent (mills -> mills)
toFixed2(value) ==
    ((value + MillsPerCent \div 2) \div MillsPerCent) * MillsPerCent

\* amount * (percentage / 100), in mills (the amounts of the model are whole
\* KES and the percentages whole basis points, so the product is a whole
\* number of mills whenever the amount is a multiple of 10 KES)
rawBonusOf(amount, percentage) ==
    (amount * percentage) \div (100 * BasisPointsPerPercent)

\* applyBonus(amount, percentage, label, round) of part_001 (lines 810-819):
\* the bonus, in mills; the raw bonus is kept as computed
applyBonus(amount, percentage, round) ==
    LET rawBonus == rawBonusOf(amount, percentage)
    IN  IF round THEN customRound(rawBonus) ELSE rawBonus

\* applyBonus(percentage, label, round) of server.js (lines 595-604): the raw
\* bonus is cut to two decimals
applyBonusFixed(amount, percentage, round) ==
    LET rawBonus == rawBonusOf(amount, percentage)
    IN  IF round THEN customRound(rawBonus) ELSE toFixed2(rawBonus)

\* Lines 790-798: the percentages read from the settings document, zero when
\* there is none
bonusPercentages(settings) ==
    [safaricomBonus |-> IF settings.exists THEN settings.safaricomPercentage ELSE 0,
     atBonus |-> IF settings.exists THEN settings.africastalkingPercentage ELSE 0]

\* Math.round(amount * 100) of sendSafaricomAirtime: the dealer is sent whole
\* cents (mills -> mills)
adjustedAmount(amount) == toFixed2(amount)

bonusFor(carrier, amount, settings) ==
    LET safaricomBonus == bonusPercentages(settings).safaricomBonus
        atBonus == bonusPercentages(settings).atBonus
    IN  IF carrier = "Safaricom" /\ safaricomBonus > 0
        THEN applyBonus(amount, safaricomBonus, FALSE)
        ELSE IF carrier \in {"Airtel", "Telkom", "Equitel", "Faiba"} /\ atBonus > 0
             THEN applyBonus(amount, atBonus, TRUE)
             ELSE 0

\* A commission of 5% instead
commissionAmount_FivePercent(originalAmountPaid) ==
    toFixed2((originalAmountPaid * 5) \div 100)

\* parseFloat((originalAmountPaid * 0.04).toFixed(2)), in mills
commissionAmount(originalAmountPaid) ==
    toFixed2((originalAmountPaid * CommissionPercent) \div 100)

---------------------------------------------------------------------------
\* Float ledger

FloatNames == {"safaricomFloat", "africasTalkingFloat"}

\* A float document: balance is a number (isNum) or null/NaN
FloatDoc(b) == [exists |-> TRUE, isNum |-> TRUE, balance |-> b]

NullFloatDoc == [exists |-> TRUE, isNum |-> FALSE, balance |-> 0]

\* The adjustment without the check of line 641
updateCarrierFloatBalance_Unchecked(doc, amount) ==
    LET currentFloat == IF doc.exists THEN doc.balance ELSE 0
        newFloat == currentFloat + amount
    IN  IF doc.exists /\ ~doc.isNum
        THEN [ok |-> FALSE, doc |-> doc, error |-> "INVALID_BALANCE"]
        ELSE [ok |-> TRUE, doc |-> FloatDoc(newFloat), error |-> "NONE"]

\* The outcome of updateCarrierFloatBalance(carrierLogicalName, amount) on the
\* stored document doc: the transaction commits (ok) with the new document,
\* or throws and leaves the document as it was.
updateCarrierFloatBalance(doc, amount) ==
    LET currentFloat == IF doc.exists THEN doc.balance ELSE 0
        newFloat == currentFloat + amount
    IN  IF doc.exists /\ ~doc.isNum
        THEN [ok |-> FALSE, doc |-> doc, error |-> "INVALID_BALANCE"]
        ELSE IF amount < 0 /\ newFloat < 0
             THEN [ok |-> FALSE, doc |-> doc, error |-> "INSUFFICIENT_FLOAT"]
             ELSE [ok |-> TRUE, doc |-> FloatDoc(newFloat), error |-> "NONE"]

---------------------------------------------------------------------------
\* Documents and initial state

NoSale ==
    [exists |-> FALSE, recipient |-> <<>>, carrier |-> "NONE", amount |-> 0,
     mpesaPaymentStatus |-> "NONE", status |-> "NONE",
     originalAmountPaid |-> 0, dispatched |-> 0, bonusApplied |-> 0,
     airtimeProviderUsed |-> "NONE"]

NoAudit ==
    [safDebits |-> 0, atDebits |-> 0, dealerCalls |-> 0, atCalls |-> 0,
     reversalRequests |-> 0, reversalsAccepted |-> 0, commissions |-> 0]

ErrorRecord(type, subType, id) ==
    [type |-> type, subType |-> subType, transactionId |-> id]

Response(endpoint, http, code) ==
    [endpoint |-> endpoint, http |-> http, ResultCode |-> code]

\* http 0: the handler died before answering
NoResponse(endpoint) == [endpoint |-> endpoint, http |-> 0, ResultCode |-> 0]

\* What happens to the push of an initiation: the access token cannot be
\* fetched, the rail call fails, the rail answers with a ResponseCode other
\* than 0, or it answers with ResponseCode 0 and a CheckoutRequestID
PushOutcomes == {"token_error", "push_error", "rejected", "ok"}

\* What an initiation did at the rail: whether the push request was sent,
\* the ResponseCode of the answer and the CheckoutRequestID it carried
RailAnswer(sent, code, id) == [sent |-> sent, code |-> code, id |-> id]

NoPush == RailAnswer(FALSE, "NONE", "NONE")

\* The body of an initiation and the handler that served it
PushRequest(handler, recipient, amount) ==
    [handler |-> handler, recipient |-> recipient, amount |-> amount]

NoRequest == PushRequest("NONE", <<>>, 0)

\* History of the credential requests: how many were made, what the last one
\* was and whether it went to the grant endpoint or the store, and when and
\* with what advertised lifetime the cached values were fetched
NoCredentialCalls ==
    [calls |-> 0, last |-> "NONE", fetched |-> FALSE, token |-> 0, pin |-> "NONE",
     tokenFetchedAt |-> 0, advertised |-> 0, pinFetchedAt |-> 0]

Init ==
    /\ sales = [id \in IDs |-> NoSale]
    /\ transactions = [id \in IDs |-> "NO_DOC"]
    /\ \E b \in InitialBalances : floats = [f \in FloatNames |-> FloatDoc(b)]
    /\ \E p \in Percentages :
          bonusSettings = [exists |-> p > 0, safaricomPercentage |-> p,
                           africastalkingPercentage |-> p]
    /\ bonusHistory = <<>>
    /\ updates = <<>>
    /\ now = 0
    /\ cachedAirtimeToken = 0
    /\ tokenExpiryTimestamp = 0
    /\ cachedDealerServicePin = "NONE"
    /\ dealerPinExpiryTimestamp = 0
    /\ credentialCalls = NoCredentialCalls
    /\ reconciled = [id \in IDs |-> "NO_DOC"]
    /\ failedRecon = [id \in IDs |-> {}]
    /\ errors = {}
    /\ timeouts = {}
    /\ runs = <<>>
    /\ response = NoResponse("NONE")
    /\ audit = [id \in IDs |-> NoAudit]
    /\ delivered = {}
    /\ singleStatus = [id \in IDs |-> "NO_DOC"]
    /\ ncallbacks = 0
    /\ npushes = 0
    /\ push = NoPush
    /\ request = NoRequest
    /\ accepted = {}

---------------------------------------------------------------------------
\* POST /stk-push (src/server.js 1126-1209)

\* outcome: the access token cannot be fetched, the rail call fails, the
\* rail answers with a ResponseCode other than 0, or with ResponseCode 0 and
\* the CheckoutRequestID rid.  The request is stored under the generated id
\* before the push is sent, and any answer of the rail is reported as a
\* success.  (The third field of the answer is 0 for success:true.)
StkPush(id, rid, recipient, amount, outcome) ==
    /\ npushes < MaxPushes
    /\ ~sales[id].exists
    /\ npushes' = npushes + 1
    /\ request' = PushRequest("server.js", recipient, amount)
    /\ IF outcome = "token_error"
       THEN /\ errors' = errors \cup {ErrorRecord("STK_PUSH_INITIATION_ERROR", "NONE", "NONE")}
            /\ response' = Response("/stk-push", 500, 1)
            /\ push' = NoPush
            /\ UNCHANGED <<sales, accepted>>
       ELSE /\ sales' = [sales EXCEPT ![id] =
                           [NoSale EXCEPT !.exists = TRUE,
                                          !.recipient = recipient,
                                          !.amount = amount,
                                          !.carrier = detectCarrier(recipient),
                                          !.mpesaPaymentStatus = "PENDING_MPESA_CONFIRMATION"]]
            /\ IF outcome = "push_error"
               THEN /\ errors' = errors \cup {ErrorRecord("STK_PUSH_INITIATION_ERROR", "NONE", "NONE")}
                    /\ response' = Response("/stk-push", 500, 1)
                    /\ push' = RailAnswer(TRUE, "error", "NONE")
                    /\ UNCHANGED accepted
               ELSE /\ response' = Response("/stk-push", 200, 0)
                    /\ push' = IF outcome = "ok" THEN RailAnswer(TRUE, "0", rid)
                               ELSE RailAnswer(TRUE, "1", "NONE")
                    /\ accepted' = IF outcome = "ok" THEN accepted \cup {rid} ELSE accepted
                    /\ UNCHANGED errors
    /\ UNCHANGED <<transactions, floats, bonusSettings, bonusHistory, updates, credentialCache, reconciled, failedRecon,
                   timeouts, runs, audit, delivered, singleStatus, ncallbacks>>

---------------------------------------------------------------------------
\* POST /stk-push (src/unnamed/part_001 1141-1275)

\* recipient.replace(/\D/g, '')
Digits(num) == SelectSeq(num, LAMBDA d : d \in 0..9)

\* The validation with the limits themselves rejected
PushValidation_LimitsRejected(recipient, amount) ==
    IF amount = 0 THEN "MISSING_PARAMETERS"
    ELSE IF amount <= MIN_AMOUNT * KES \/ amount >= MAX_AMOUNT * KES
    THEN "INVALID_AMOUNT"
    ELSE IF Len(Digits(recipient)) < 9 THEN "INVALID_NUMBER"
    ELSE IF detectCarrier(Digits(recipient)) = "Unknown" THEN "UNSUPPORTED_CARRIER"
    ELSE "ok"

\* Lines 1144-1176: what the validation answers, "ok" when the request passes
PushValidation(recipient, amount) ==
    IF amount = 0 THEN "MISSING_PARAMETERS"
    ELSE IF amount < MIN_AMOUNT * KES \/ amount > MAX_AMOUNT * KES
    THEN "INVALID_AMOUNT"
    ELSE IF Len(Digits(recipient)) < 9 THEN "INVALID_NUMBER"
    ELSE IF detectCarrier(Digits(recipient)) = "Unknown" THEN "UNSUPPORTED_CARRIER"
    ELSE "ok"

\* A request that fails the validation is answered 400 and nothing else
\* happens.  Otherwise the push is sent; when the rail answers ResponseCode
\* '0' the document to store is built from normalizedPhoneNumber, carrier,
\* customerName, serviceType and reference, none of which is declared: line
\* 1221 throws a ReferenceError, nothing is stored, and the catch at 1254
\* logs the error and answers 500.
StkPushValidating(rid, recipient, amount, outcome) ==
    /\ npushes < MaxPushes
    /\ npushes' = npushes + 1
    /\ request' = PushRequest("part_001", recipient, amount)
    /\ IF PushValidation(recipient, amount) # "ok"
       THEN /\ response' = Response("/stk-push", 400, 1)
            /\ push' = NoPush
            /\ UNCHANGED <<errors, accepted>>
       ELSE /\ response' = Response("/stk-push", 500, 1)
            /\ errors' = errors \cup
                  {IF outcome = "rejected"
                   THEN ErrorRecord("STK_PUSH_INITIATION_FAILED_BY_DARJA", "NONE", "NONE")
                   ELSE ErrorRecord("STK_PUSH_CRITICAL_INITIATION_ERROR", "NONE", "NONE")}
            /\ push' = IF outcome = "token_error" THEN NoPush
                       ELSE IF outcome = "push_error" THEN RailAnswer(TRUE, "error", "NONE")
                       ELSE IF outcome = "rejected" THEN RailAnswer(TRUE, "1", "NONE")
                       ELSE RailAnswer(TRUE, "0", rid)
            /\ accepted' = IF outcome = "ok" THEN accepted \cup {rid} ELSE accepted
    /\ UNCHANGED <<sales, transactions, floats, bonusSettings, bonusHistory, updates, credentialCache, reconciled,
                   failedRecon, timeouts, runs, audit, delivered, singleStatus,
                   ncallbacks>>

---------------------------------------------------------------------------
\* POST /stk-callback (src/server.js 1213-1418)

\* The payload of a reversal request (lines 553-565): the transaction to
\* reverse and the amount
ReversalPayload(transactionId, amount) ==
    [TransactionID |-> transactionId, Amount |-> amount]

NoReversalPayload == [TransactionID |-> "NONE", Amount |-> 0]

NewRun(id, amount, dup) ==
    [id |-> id, amount |-> amount, recipient |-> sales[id].recipient,
     pc |-> "start", carrier |-> "NONE", final |-> 0, bonus |-> 0,
     provider |-> "NONE", dispatch |-> "FAILED",
     reported |-> [has |-> FALSE, isNum |-> FALSE, balance |-> 0],
     dSaf |-> 0, dAt |-> 0, commission |-> 0, dup |-> dup,
     dealerCalls |-> 0, atCalls |-> 0, dealerResult |-> "NONE",
     reversals |-> 0, thrown |-> "NONE", reversal |-> NoReversalPayload,
     safaricomBonus |-> 0, atBonus |-> 0, sent |-> 0,
     start |-> floats, result |-> "NONE"]

\* A write of the transaction status made while handling a callback; first
\* tells whether the callback is a first delivery (singleStatus follows the
\* first deliveries only)
SetStatus(id, status, first) ==
    /\ transactions' = [transactions EXCEPT ![id] = status]
    /\ singleStatus' = IF first THEN [singleStatus EXCEPT ![id] = status]
                       ELSE singleStatus

\* The body has no Body.stkCallback: line 1219 throws outside any try, and
\* the handler gives no answer
StkCallbackMalformed ==
    /\ ncallbacks < MaxCallbacks
    /\ ncallbacks' = ncallbacks + 1
    /\ response' = NoResponse("/stk-callback")
    /\ UNCHANGED <<npushes, push, request, accepted, sales, transactions, floats, bonusSettings, bonusHistory, updates, credentialCache, reconciled,
                   failedRecon, errors, timeouts, runs, audit, delivered,
                   singleStatus>>

\* No initial sales request under the CheckoutRequestID (lines 1256-1266)
StkCallbackUnknown(id) ==
    /\ ncallbacks < MaxCallbacks
    /\ ~sales[id].exists
    /\ ncallbacks' = ncallbacks + 1
    /\ errors' = errors \cup {ErrorRecord("STK_CALLBACK_ERROR", "NONE", id)}
    /\ response' = Response("/stk-callback", 200, 0)
    /\ UNCHANGED <<npushes, push, request, accepted, sales, transactions, floats, bonusSettings, bonusHistory, updates, credentialCache, reconciled,
                   failedRecon, timeouts, runs, audit, delivered, singleStatus>>

\* resultCode === 0 (lines 1278-1346, 1384-1417): the payment is recorded and
\* the request goes to the fulfilment logic with the amount paid, which is
\* the amount of the push the customer approved
StkCallbackSuccess(id, analyticsOk) ==
    LET amount == sales[id].amount
        cb == <<"stk", id, 0, amount>>
        first == cb \notin delivered
    IN  /\ ncallbacks < MaxCallbacks
        /\ Len(runs) < MaxRuns
        /\ sales[id].exists
        /\ ncallbacks' = ncallbacks + 1
        /\ delivered' = delivered \cup {cb}
        /\ SetStatus(id, "RECEIVED_PENDING_FULFILLMENT", first)
        /\ sales' = [sales EXCEPT ![id].mpesaPaymentStatus = "RECEIVED_PENDING_FULFILLMENT"]
        /\ IF analyticsOk
           THEN UNCHANGED <<errors, failedRecon>>
           ELSE /\ errors' = errors \cup
                       {ErrorRecord("ANALYTICS_NOTIFICATION_ERROR", "STK_PUSH_PAYMENT_RECEIVED", id)}
                /\ failedRecon' = [failedRecon EXCEPT ![id] =
                                      @ \cup {"ANALYTICS_NOTIFICATION_FAILED_AT_PAYMENT"}]
        /\ runs' = Append(runs, NewRun(id, amount, ~first))
        /\ response' = Response("/stk-callback", 200, 0)
        /\ UNCHANGED <<npushes, push, request, accepted, floats, bonusSettings, bonusHistory, updates, credentialCache, reconciled, timeouts, audit>>

\* resultCode !== 0 (lines 1348-1382, 1384-1417)
StkCallbackFailure(id, resultCode) ==
    LET cb == <<"stk", id, resultCode, 0>>
        first == cb \notin delivered
    IN  /\ ncallbacks < MaxCallbacks
        /\ sales[id].exists
        /\ ncallbacks' = ncallbacks + 1
        /\ delivered' = delivered \cup {cb}
        /\ SetStatus(id, "MPESA_PAYMENT_FAILED", first)
        /\ sales' = [sales EXCEPT ![id].mpesaPaymentStatus = "MPESA_PAYMENT_FAILED"]
        /\ errors' = errors \cup {ErrorRecord("STK_PAYMENT_ERROR", "NONE", id)}
        /\ response' = Response("/stk-callback", 200, 0)
        /\ UNCHANGED <<npushes, push, request, accepted, floats, bonusSettings, bonusHistory, updates, credentialCache, reconciled, failedRecon, timeouts,
                       runs, audit>>

---------------------------------------------------------------------------
\* POST /stk-callback (src/unnamed/part_001 1428-1574)

\* Lines 1433-1436: an empty or malformed body is acknowledged
StkCallbackIgnored ==
    /\ ncallbacks < MaxCallbacks
    /\ ncallbacks' = ncallbacks + 1
    /\ response' = Response("/stk-callback", 200, 0)
    /\ UNCHANGED <<sales, transactions, floats, bonusSettings, bonusHistory, updates, credentialCache, reconciled,
                   failedRecon, errors, timeouts, runs, audit, delivered,
                   singleStatus, npushes, push, request, accepted>>

\* Lines 1446-1454: no sales document under the CheckoutRequestID
StkCallbackNoMatch(id) ==
    /\ ncallbacks < MaxCallbacks
    /\ ~sales[id].exists
    /\ ncallbacks' = ncallbacks + 1
    /\ response' = Response("/stk-callback", 200, 0)
    /\ UNCHANGED <<sales, transactions, floats, bonusSettings, bonusHistory, updates, credentialCache, reconciled,
                   failedRecon, errors, timeouts, runs, audit, delivered,
                   singleStatus, npushes, push, request, accepted>>

\* Lines 1459-1534: the payment is recorded and the offline server is told
\* to fulfil; update() of a missing transaction document throws (line 1489)
StkCallbackOfflineSuccess(id) ==
    LET cb == <<"stk", id, 0, sales[id].amount>>
        first == cb \notin delivered
    IN  /\ ncallbacks < MaxCallbacks
        /\ sales[id].exists
        /\ ncallbacks' = ncallbacks + 1
        /\ delivered' = delivered \cup {cb}
        /\ sales' = [sales EXCEPT ![id].mpesaPaymentStatus =
                                     "SUCCESSFUL_PENDING_EXTERNAL_FULFILLMENT"]
        /\ IF transactions[id] = "NO_DOC"
           THEN /\ errors' = errors \cup
                      {ErrorRecord("STK_CALLBACK_FIRESTORE_UPDATE_OR_NOTIFICATION_ERROR",
                                   "NONE", id)}
                /\ UNCHANGED <<transactions, singleStatus>>
           ELSE /\ SetStatus(id, "RECEIVED_PENDING_OFFLINE_FULFILLMENT", first)
                /\ UNCHANGED errors
        /\ response' = Response("/stk-callback", 200, 0)
        /\ UNCHANGED <<floats, bonusSettings, bonusHistory, updates, credentialCache, reconciled, failedRecon, timeouts,
                       runs, audit, npushes, push, request, accepted>>

\* Lines 1536-1573: the payment failed or was cancelled
StkCallbackOfflineFailure(id, resultCode) ==
    LET cb == <<"stk", id, resultCode, 0>>
        first == cb \notin delivered
    IN  /\ ncallbacks < MaxCallbacks
        /\ sales[id].exists
        /\ ncallbacks' = ncallbacks + 1
        /\ delivered' = delivered \cup {cb}
        /\ sales' = [sales EXCEPT ![id].mpesaPaymentStatus = "FAILED_OR_CANCELLED"]
        /\ IF transactions[id] = "NO_DOC"
           THEN /\ errors' = errors \cup
                      {ErrorRecord("STK_CALLBACK_FAILED_PAYMENT_UPDATE_ERROR", "NONE", id)}
                /\ UNCHANGED <<transactions, singleStatus>>
           ELSE /\ SetStatus(id, "PAYMENT_FAILED_OR_CANCELLED", first)
                /\ UNCHANGED errors
        /\ response' = Response("/stk-callback", 200, 0)
        /\ UNCHANGED <<floats, bonusSettings, bonusHistory, updates, credentialCache, reconciled, failedRecon, timeouts,
                       runs, audit, npushes, push, request, accepted>>

\* Line 1448: the read of the sales document is awaited outside every try;
\* when the store answers it with an error the handler's promise rejects,
\* no response is sent, and the rejection reaches the process handler of
\* lines 24-29
StkCallbackStoreError(id) ==
    /\ ncallbacks < MaxCallbacks
    /\ ncallbacks' = ncallbacks + 1
    /\ response' = NoResponse("/stk-callback")
    /\ UNCHANGED <<sales, transactions, floats, bonusSettings, bonusHistory, updates, credentialCache, reconciled,
                   failedRecon, errors, timeouts, runs, audit, delivered,
                   singleStatus, npushes, push, request, accepted>>

---------------------------------------------------------------------------
\* POST /daraja-reversal-result (src/unnamed/part_001 1576-1646)

\* The callback carries no OriginalTransactionID (lines 1595-1598)
DarajaReversalResultMissingId ==
    /\ ncallbacks < MaxCallbacks
    /\ ncallbacks' = ncallbacks + 1
    /\ response' = Response("/daraja-reversal-result", 400, 0)
    /\ UNCHANGED <<npushes, push, request, accepted, sales, transactions, floats, bonusSettings, bonusHistory, updates, credentialCache, reconciled,
                   failedRecon, errors, timeouts, runs, audit, delivered,
                   singleStatus>>

DarajaReversalResult(id, resultCode) ==
    LET cb == <<"reversal-result", id, resultCode, 0>>
        first == cb \notin delivered
    IN  /\ ncallbacks < MaxCallbacks
        /\ ncallbacks' = ncallbacks + 1
        /\ IF transactions[id] = "NO_DOC"
           THEN \* lines 1603-1606
                /\ response' = Response("/daraja-reversal-result", 200, 0)
                /\ UNCHANGED <<transactions, singleStatus, reconciled, failedRecon, delivered>>
           ELSE /\ delivered' = delivered \cup {cb}
                /\ IF resultCode = 0
                   THEN \* lines 1608-1619; update() of a missing
                        \* reconciled_transactions document throws (line 1638)
                        /\ SetStatus(id, "REVERSED_SUCCESSFULLY", first)
                        /\ IF reconciled[id] = "NO_DOC"
                           THEN /\ response' = Response("/daraja-reversal-result", 500, 0)
                                /\ UNCHANGED reconciled
                           ELSE /\ reconciled' = [reconciled EXCEPT ![id] = "REVERSAL_CONFIRMED"]
                                /\ response' = Response("/daraja-reversal-result", 200, 0)
                        /\ UNCHANGED failedRecon
                   ELSE \* lines 1620-1634
                        /\ SetStatus(id, "REVERSAL_FAILED_CONFIRMATION", first)
                        /\ failedRecon' = [failedRecon EXCEPT ![id] =
                                              @ \cup {"REVERSAL_FAILED_CONFIRMATION"}]
                        /\ response' = Response("/daraja-reversal-result", 200, 0)
                        /\ UNCHANGED reconciled
        /\ UNCHANGED <<npushes, push, request, accepted, sales, floats, bonusSettings, bonusHistory, updates, credentialCache, errors, timeouts, runs, audit>>

---------------------------------------------------------------------------
\* POST /daraja-reversal-timeout (src/unnamed/part_001 1650-1703)

\* id is the OriginatorConversationID of the callback, which the handler
\* takes for the key of the transaction
DarajaReversalTimeout(id) ==
    LET cb == <<"reversal-timeout", id, 0, 0>>
        first == cb \notin delivered
    IN  /\ ncallbacks < MaxCallbacks
        /\ ncallbacks' = ncallbacks + 1
        /\ IF id \notin IDs \/ transactions[id] = "NO_DOC"
           THEN UNCHANGED <<transactions, singleStatus, delivered>>
           ELSE /\ delivered' = delivered \cup {cb}
                /\ SetStatus(id, "REVERSAL_TIMED_OUT", first)
        /\ timeouts' = timeouts \cup {id}
        /\ response' = Response("/daraja-reversal-timeout", 200, 0)
        /\ UNCHANGED <<npushes, push, request, accepted, sales, floats, bonusSettings, bonusHistory, updates, credentialCache, reconciled, failedRecon,
                       errors, runs, audit>>

---------------------------------------------------------------------------
\* processAirtimeFulfillment (src/unnamed/part_001 669-1116), one step per
\* await that reads or writes shared state.  i is the index of the run.

Run(i) == runs[i]

\* A status write of a fulfilment run
RunSetStatus(i, status) == SetStatus(Run(i).id, status, ~Run(i).dup)

\* What a committed ledger adjustment moved: new balance minus old balance
Moved(old, new) == new.balance - (IF old.exists THEN old.balance ELSE 0)

FloatOf(provider) ==
    IF provider = "SafaricomDealer" THEN "safaricomFloat" ELSE "africasTalkingFloat"

\* Lines 689-870.  Amount range and carrier are checked; a request that
\* passes has its bonus computed from the bonus settings and its sale document
\* filled in with the amount to dispatch.
FulfillValidate(i) ==
    LET r == Run(i)
        targetCarrier == detectCarrier(r.recipient)
        percentagesRead == bonusPercentages(bonusSettings)
        bonusApplied == bonusFor(targetCarrier, r.amount, bonusSettings)
        finalAmountToDispatch == r.amount + bonusApplied
    IN  /\ i \in DOMAIN runs
        /\ r.pc = "start"
        /\ IF amountInt(r.amount) < MIN_AMOUNT \/ amountInt(r.amount) > MAX_AMOUNT
           THEN /\ errors' = errors \cup
                       {ErrorRecord("AIRTIME_FULFILLMENT_ERROR", "INVALID_AMOUNT_RANGE", r.id)}
                /\ RunSetStatus(i, "RECEIVED_FULFILLMENT_FAILED")
                /\ runs' = [runs EXCEPT ![i].pc = "reverse", ![i].result = "INVALID_AMOUNT"]
                /\ UNCHANGED sales
           ELSE IF targetCarrier = "Unknown"
           THEN /\ errors' = errors \cup
                       {ErrorRecord("AIRTIME_FULFILLMENT_ERROR", "UNKNOWN_CARRIER", r.id)}
                /\ RunSetStatus(i, "RECEIVED_FULFILLMENT_FAILED")
                /\ runs' = [runs EXCEPT ![i].pc = "done", ![i].result = "FAILED_UNKNOWN_CARRIER"]
                /\ UNCHANGED sales
           ELSE /\ sales' = [sales EXCEPT ![r.id] =
                               [@ EXCEPT !.recipient = r.recipient,
                                         !.originalAmountPaid = r.amount,
                                         !.dispatched = finalAmountToDispatch,
                                         !.bonusApplied = bonusApplied,
                                         !.carrier = targetCarrier,
                                         !.status = "PENDING_DISPATCH"]]
                /\ runs' = [runs EXCEPT ![i].pc = "debit",
                                        ![i].carrier = targetCarrier,
                                        ![i].final = finalAmountToDispatch,
                                        ![i].bonus = bonusApplied,
                                        ![i].safaricomBonus = percentagesRead.safaricomBonus,
                                        ![i].atBonus = percentagesRead.atBonus,
                                        ![i].provider = IF targetCarrier = "Safaricom"
                                                        THEN "SafaricomDealer"
                                                        ELSE "AfricasTalkingDirect"]
                /\ UNCHANGED <<errors, transactions, singleStatus>>
        /\ UNCHANGED <<npushes, push, request, accepted, floats, bonusSettings, bonusHistory, updates, credentialCache, reconciled, failedRecon,
                       timeouts, response, audit, delivered, ncallbacks>>

\* Lines 875, 891, 915: the float of the provider about to be called is
\* debited by the amount to dispatch; a throw is caught at 907/930
FulfillDebit(i) ==
    LET r == Run(i)
        f == FloatOf(r.provider)
        res == updateCarrierFloatBalance(floats[f], 0 - r.final)
    IN  /\ i \in DOMAIN runs
        /\ r.pc = "debit"
        /\ floats' = [floats EXCEPT ![f] = res.doc]
        /\ IF res.ok
           THEN /\ runs' = [runs EXCEPT
                              ![i].pc = "send",
                              ![i].dSaf = IF f = "safaricomFloat"
                                          THEN @ + Moved(floats[f], res.doc) ELSE @,
                              ![i].dAt = IF f = "africasTalkingFloat"
                                         THEN @ + Moved(floats[f], res.doc) ELSE @]
                /\ audit' = [audit EXCEPT
                              ![r.id].safDebits = IF f = "safaricomFloat" THEN @ + 1 ELSE @,
                              ![r.id].atDebits = IF f = "africasTalkingFloat" THEN @ + 1 ELSE @]
           ELSE /\ runs' = [runs EXCEPT ![i].pc = "failed"]
                /\ UNCHANGED audit
        /\ UNCHANGED <<npushes, push, request, accepted, sales, transactions, singleStatus, bonusSettings, bonusHistory, updates, credentialCache, reconciled,
                       failedRecon, errors, timeouts, response, delivered, ncallbacks>>

\* Lines 875, 891, 915: the store fails inside updateCarrierFloatBalance and
\* the transaction throws; the throw is caught by the catch of the dispatch
\* block (907, 930), which leaves the dispatch status FAILED
FulfillDebitThrows(i) ==
    LET r == Run(i)
    IN  /\ i \in DOMAIN runs
        /\ r.pc = "debit"
        /\ runs' = [runs EXCEPT ![i].pc = "failed", ![i].thrown = "debit"]
        /\ UNCHANGED <<npushes, push, request, accepted, sales, transactions, singleStatus, floats,
                       bonusSettings, bonusHistory, updates, credentialCache, reconciled, failedRecon, errors, timeouts, response,
                       audit, delivered, ncallbacks>>

\* What the responseDesc of a successful dealer response may say about the
\* new balance (lines 325-341): nothing the regex matches, the balance the
\* ledger holds, or another balance
Reports ==
    {[kind |-> "unparsed", balance |-> 0], [kind |-> "ledger", balance |-> 0]}
    \cup {[kind |-> "other", balance |-> b] : b \in DriftBalances}

\* newSafaricomFloatBalance of the result: null when nothing was parsed
newSafaricomFloatBalance(report) ==
    IF report.kind = "unparsed" THEN [has |-> TRUE, isNum |-> FALSE, balance |-> 0]
    ELSE IF report.kind = "ledger"
         THEN [has |-> TRUE, isNum |-> TRUE, balance |-> floats["safaricomFloat"].balance]
         ELSE [has |-> TRUE, isNum |-> TRUE, balance |-> report.balance]

\* The dealer call that is followed by the fallback whatever it returned
FulfillSendDealer_AlwaysFallsBack(i, success, report) ==
    LET r == Run(i)
    IN  /\ i \in DOMAIN runs
        /\ r.pc = "send"
        /\ r.provider = "SafaricomDealer"
        /\ audit' = [audit EXCEPT ![r.id].dealerCalls = @ + 1]
        /\ runs' = [runs EXCEPT ![i].pc = "refund",
                                ![i].sent = adjustedAmount(r.final),
                                ![i].dealerCalls = @ + 1,
                                ![i].dealerResult = IF success THEN "SUCCESS" ELSE "FAILED"]
        /\ UNCHANGED <<npushes, push, request, accepted, sales, transactions, singleStatus, floats, bonusSettings, bonusHistory, updates, credentialCache,
                       reconciled, failedRecon, errors, timeouts, response,
                       delivered, ncallbacks>>

\* Lines 877-884: sendSafaricomAirtime returns SUCCESS or FAILED
FulfillSendDealer(i, success, report) ==
    LET r == Run(i)
    IN  /\ i \in DOMAIN runs
        /\ r.pc = "send"
        /\ r.provider = "SafaricomDealer"
        /\ report.kind = "ledger" => floats["safaricomFloat"].isNum
        /\ audit' = [audit EXCEPT ![r.id].dealerCalls = @ + 1]
        /\ runs' = IF success
                   THEN [runs EXCEPT ![i].pc = "overwrite",
                                     ![i].dispatch = "COMPLETED",
                                     ![i].reported = newSafaricomFloatBalance(report),
                                     ![i].sent = adjustedAmount(r.final),
                                     ![i].dealerCalls = @ + 1,
                                     ![i].dealerResult = "SUCCESS"]
                   ELSE [runs EXCEPT ![i].pc = "refund",
                                     ![i].sent = adjustedAmount(r.final),
                                     ![i].dealerCalls = @ + 1,
                                     ![i].dealerResult = "FAILED"]
        /\ UNCHANGED <<npushes, push, request, accepted, sales, transactions, singleStatus, floats, bonusSettings, bonusHistory, updates, credentialCache,
                       reconciled, failedRecon, errors, timeouts, response,
                       delivered, ncallbacks>>

\* Skips the credit-back of line 887
FulfillRefund_NoCredit(i) ==
    /\ i \in DOMAIN runs
    /\ Run(i).pc = "refund"
    /\ runs' = [runs EXCEPT ![i].pc = "debit", ![i].provider = "AfricasTalkingFallback"]
    /\ UNCHANGED <<npushes, push, request, accepted, sales, transactions, singleStatus, floats, bonusSettings, bonusHistory, updates, credentialCache,
                   reconciled, failedRecon, errors, timeouts, response, audit,
                   delivered, ncallbacks>>

\* Line 887: the home float is credited back
FulfillRefund(i) ==
    LET r == Run(i)
        res == updateCarrierFloatBalance(floats["safaricomFloat"], r.final)
    IN  /\ i \in DOMAIN runs
        /\ r.pc = "refund"
        /\ floats' = [floats EXCEPT !["safaricomFloat"] = res.doc]
        /\ runs' = IF res.ok
                   THEN [runs EXCEPT ![i].pc = "debit",
                                     ![i].provider = "AfricasTalkingFallback",
                                     ![i].dSaf = @ + Moved(floats["safaricomFloat"], res.doc)]
                   ELSE [runs EXCEPT ![i].pc = "failed"]
        /\ UNCHANGED <<npushes, push, request, accepted, sales, transactions, singleStatus, bonusSettings, bonusHistory, updates, credentialCache, reconciled,
                       failedRecon, errors, timeouts, response, audit, delivered,
                       ncallbacks>>

\* The aggregator call that is followed by the commission whatever it returned
FulfillSendAggregator_AlwaysCommission(i, success) ==
    LET r == Run(i)
    IN  /\ i \in DOMAIN runs
        /\ r.pc = "send"
        /\ r.provider \in {"AfricasTalkingFallback", "AfricasTalkingDirect"}
        /\ audit' = [audit EXCEPT ![r.id].atCalls = @ + 1]
        /\ runs' = IF success
                   THEN [runs EXCEPT ![i].pc = "commission", ![i].dispatch = "COMPLETED",
                                     ![i].sent = r.final, ![i].atCalls = @ + 1]
                   ELSE [runs EXCEPT ![i].pc = "commission", ![i].sent = r.final,
                                     ![i].atCalls = @ + 1]
        /\ UNCHANGED <<npushes, push, request, accepted, sales, transactions, singleStatus, floats, bonusSettings, bonusHistory, updates, credentialCache,
                       reconciled, failedRecon, errors, timeouts, response,
                       delivered, ncallbacks>>

\* Lines 893-895, 917-919: sendAfricasTalkingAirtime returns SUCCESS or FAILED
FulfillSendAggregator(i, success) ==
    LET r == Run(i)
    IN  /\ i \in DOMAIN runs
        /\ r.pc = "send"
        /\ r.provider \in {"AfricasTalkingFallback", "AfricasTalkingDirect"}
        /\ audit' = [audit EXCEPT ![r.id].atCalls = @ + 1]
        /\ runs' = IF success
                   THEN [runs EXCEPT ![i].pc = "commission", ![i].dispatch = "COMPLETED",
                                     ![i].sent = r.final, ![i].atCalls = @ + 1]
                   ELSE [runs EXCEPT ![i].pc = "failed", ![i].sent = r.final,
                                     ![i].atCalls = @ + 1]
        /\ UNCHANGED <<npushes, push, request, accepted, sales, transactions, singleStatus, floats, bonusSettings, bonusHistory, updates, credentialCache,
                       reconciled, failedRecon, errors, timeouts, response,
                       delivered, ncallbacks>>

\* Lines 899-900, 923-924: the 4% commission is credited to the aggregator float
FulfillCommission(i) ==
    LET r == Run(i)
        c == commissionAmount(r.amount)
        res == updateCarrierFloatBalance(floats["africasTalkingFloat"], c)
    IN  /\ i \in DOMAIN runs
        /\ r.pc = "commission"
        /\ floats' = [floats EXCEPT !["africasTalkingFloat"] = res.doc]
        /\ runs' = [runs EXCEPT ![i].pc = "complete",
                                ![i].dAt = @ + Moved(floats["africasTalkingFloat"], res.doc),
                                ![i].commission = @ + Moved(floats["africasTalkingFloat"], res.doc)]
        /\ audit' = [audit EXCEPT ![r.id].commissions = @ + 1]
        /\ UNCHANGED <<npushes, push, request, accepted, sales, transactions, singleStatus, bonusSettings, bonusHistory, updates, credentialCache, reconciled,
                       failedRecon, errors, timeouts, response, delivered, ncallbacks>>

\* The step after a dealer dispatch that leaves the home float as the ledger
\* adjustments made it
FulfillOverwrite_Skipped(i) ==
    LET r == Run(i)
    IN  /\ i \in DOMAIN runs
        /\ r.pc = "overwrite"
        /\ runs' = [runs EXCEPT ![i].pc = "complete"]
        /\ UNCHANGED <<npushes, push, request, accepted, sales, transactions, singleStatus, floats,
                       bonusSettings, bonusHistory, updates, credentialCache, reconciled, failedRecon, errors, timeouts, response,
                       audit, delivered, ncallbacks>>

\* Lines 958-981: after a successful dealer dispatch the home float document
\* is overwritten with the balance the response reported
\* (newSafaricomFloatBalance is null, never undefined, when nothing was parsed)
FulfillOverwrite(i) ==
    LET r == Run(i)
    IN  /\ i \in DOMAIN runs
        /\ r.pc = "overwrite"
        /\ floats' = [floats EXCEPT !["safaricomFloat"] =
                         IF r.reported.isNum THEN FloatDoc(r.reported.balance)
                         ELSE NullFloatDoc]
        /\ runs' = [runs EXCEPT ![i].pc = "complete"]
        /\ UNCHANGED <<npushes, push, request, accepted, sales, transactions, singleStatus, bonusSettings, bonusHistory, updates, credentialCache, reconciled,
                       failedRecon, errors, timeouts, response, audit, delivered,
                       ncallbacks>>

\* Lines 982-994
\* Lines 959-980 when the update of line 960 throws: the float keeps its
\* balance, the catch writes a FLOAT_RECONCILIATION_WARNING record, and the
\* fulfilment goes on.
FulfillOverwriteThrows(i) ==
    LET r == Run(i)
    IN  /\ i \in DOMAIN runs
        /\ r.pc = "overwrite"
        /\ errors' = errors \cup
               {ErrorRecord("FLOAT_RECONCILIATION_WARNING",
                            "SAFARICOM_REPORTED_BALANCE_UPDATE_FAILED", r.id)}
        /\ runs' = [runs EXCEPT ![i].pc = "complete"]
        /\ UNCHANGED <<npushes, push, request, accepted, sales, transactions, singleStatus, floats,
                       bonusSettings, bonusHistory, updates, credentialCache, reconciled, failedRecon, timeouts, response,
                       audit, delivered, ncallbacks>>

FulfillComplete(i) ==
    LET r == Run(i)
    IN  /\ i \in DOMAIN runs
        /\ r.pc = "complete"
        /\ sales' = [sales EXCEPT ![r.id].status = "COMPLETED",
                                  ![r.id].airtimeProviderUsed = r.provider]
        /\ RunSetStatus(i, "COMPLETED_AND_FULFILLED")
        /\ runs' = [runs EXCEPT ![i].pc = "done", ![i].result = "COMPLETED_AND_FULFILLED"]
        /\ UNCHANGED <<npushes, push, request, accepted, floats, bonusSettings, bonusHistory, updates, credentialCache, reconciled, failedRecon, errors,
                       timeouts, response, audit, delivered, ncallbacks>>

\* The failed dispatch that is recorded and left at that
FulfillFailed_NoReversal(i) ==
    LET r == Run(i)
    IN  /\ i \in DOMAIN runs
        /\ r.pc = "failed"
        /\ errors' = errors \cup
               {ErrorRecord("AIRTIME_FULFILLMENT_ERROR", "AIRTIME_DISPATCH_FAILED", r.id)}
        /\ sales' = [sales EXCEPT ![r.id].status = "FAILED_DISPATCH_API",
                                  ![r.id].airtimeProviderUsed = r.provider]
        /\ RunSetStatus(i, "RECEIVED_FULFILLMENT_FAILED")
        /\ runs' = [runs EXCEPT ![i].pc = "done", ![i].result = "FAILED_DISPATCH_API"]
        /\ UNCHANGED <<npushes, push, request, accepted, floats, bonusSettings, bonusHistory, updates, credentialCache, reconciled, failedRecon, timeouts,
                       response, audit, delivered, ncallbacks>>

\* Lines 996-1038: the dispatch ultimately failed
FulfillFailed(i) ==
    LET r == Run(i)
    IN  /\ i \in DOMAIN runs
        /\ r.pc = "failed"
        /\ errors' = errors \cup
               {ErrorRecord("AIRTIME_FULFILLMENT_ERROR", "AIRTIME_DISPATCH_FAILED", r.id)}
        /\ sales' = [sales EXCEPT ![r.id].status = "FAILED_DISPATCH_API",
                                  ![r.id].airtimeProviderUsed = r.provider]
        /\ RunSetStatus(i, "RECEIVED_FULFILLMENT_FAILED")
        /\ runs' = [runs EXCEPT ![i].pc = "reverse", ![i].result = "FAILED_DISPATCH_API"]
        /\ UNCHANGED <<npushes, push, request, accepted, floats, bonusSettings, bonusHistory, updates, credentialCache, reconciled, failedRecon, timeouts,
                       response, audit, delivered, ncallbacks>>

\* initiateDarajaReversal (lines 533-608): the rail accepts the request
\* (ResponseCode '0'), or it does not, or the call throws
ReversalOutcomes == {"accepted", "rejected"}

\* The reversal step that keeps no record of a rejected reversal
FulfillReverse_RejectionUnrecorded(i, outcome) ==
    LET r == Run(i)
    IN  /\ i \in DOMAIN runs
        /\ r.pc = "reverse"
        /\ audit' = [audit EXCEPT ![r.id].reversalRequests = @ + 1,
                                  ![r.id].reversalsAccepted =
                                      IF outcome = "accepted" THEN @ + 1 ELSE @]
        /\ IF outcome = "accepted"
           THEN /\ reconciled' = [reconciled EXCEPT ![r.id] = "REVERSAL_INITIATED"]
                /\ RunSetStatus(i, "REVERSAL_PENDING_CONFIRMATION")
                /\ runs' = [runs EXCEPT ![i].pc = "done", ![i].reversals = @ + 1]
                /\ UNCHANGED failedRecon
           ELSE /\ RunSetStatus(i, "REVERSAL_INITIATION_FAILED")
                /\ runs' = [runs EXCEPT ![i].pc = "done", ![i].reversals = @ + 1]
                /\ UNCHANGED <<reconciled, failedRecon>>
        /\ UNCHANGED <<npushes, push, request, accepted, sales, floats, bonusSettings, bonusHistory, updates, credentialCache, errors, timeouts, response,
                       delivered, ncallbacks>>

\* The reversal step that marks the transaction pending whatever the rail said
FulfillReverse_PendingOnRejection(i, outcome) ==
    LET r == Run(i)
    IN  /\ i \in DOMAIN runs
        /\ r.pc = "reverse"
        /\ audit' = [audit EXCEPT ![r.id].reversalRequests = @ + 1,
                                  ![r.id].reversalsAccepted =
                                      IF outcome = "accepted" THEN @ + 1 ELSE @]
        /\ IF outcome = "accepted"
           THEN /\ reconciled' = [reconciled EXCEPT ![r.id] = "REVERSAL_INITIATED"]
                /\ UNCHANGED failedRecon
           ELSE /\ failedRecon' = [failedRecon EXCEPT ![r.id] =
                                      @ \cup {"REVERSAL_INITIATION_FAILED"}]
                /\ UNCHANGED reconciled
        /\ RunSetStatus(i, "REVERSAL_PENDING_CONFIRMATION")
        /\ runs' = [runs EXCEPT ![i].pc = "done", ![i].reversals = @ + 1]
        /\ UNCHANGED <<npushes, push, request, accepted, sales, floats, bonusSettings, bonusHistory, updates, credentialCache, errors, timeouts, response,
                       delivered, ncallbacks>>

\* Lines 719-760 and 1040-1080: the reversal is requested and recorded
\* The reversal that asks for the dispatched amount
FulfillReverse_DispatchedAmount(i, outcome) ==
    LET r == Run(i)
    IN  /\ i \in DOMAIN runs
        /\ r.pc = "reverse"
        /\ audit' = [audit EXCEPT ![r.id].reversalRequests = @ + 1,
                                  ![r.id].reversalsAccepted =
                                      IF outcome = "accepted" THEN @ + 1 ELSE @]
        /\ IF outcome = "accepted"
           THEN /\ reconciled' = [reconciled EXCEPT ![r.id] = "REVERSAL_INITIATED"]
                /\ RunSetStatus(i, "REVERSAL_PENDING_CONFIRMATION")
                /\ runs' = [runs EXCEPT ![i].pc = "done", ![i].reversals = @ + 1,
                                  ![i].reversal = ReversalPayload(r.id, r.final)]
                /\ UNCHANGED failedRecon
           ELSE /\ failedRecon' = [failedRecon EXCEPT ![r.id] =
                                      @ \cup {"REVERSAL_INITIATION_FAILED"}]
                /\ RunSetStatus(i, "REVERSAL_INITIATION_FAILED")
                /\ runs' = [runs EXCEPT ![i].pc = "done", ![i].reversals = @ + 1,
                                  ![i].reversal = ReversalPayload(r.id, r.final)]
                /\ UNCHANGED reconciled
        /\ UNCHANGED <<npushes, push, request, accepted, sales, floats, bonusSettings, bonusHistory, updates, credentialCache, errors, timeouts, response,
                       delivered, ncallbacks>>

FulfillReverse(i, outcome) ==
    LET r == Run(i)
    IN  /\ i \in DOMAIN runs
        /\ r.pc = "reverse"
        /\ audit' = [audit EXCEPT ![r.id].reversalRequests = @ + 1,
                                  ![r.id].reversalsAccepted =
                                      IF outcome = "accepted" THEN @ + 1 ELSE @]
        /\ IF outcome = "accepted"
           THEN /\ reconciled' = [reconciled EXCEPT ![r.id] = "REVERSAL_INITIATED"]
                /\ RunSetStatus(i, "REVERSAL_PENDING_CONFIRMATION")
                /\ runs' = [runs EXCEPT ![i].pc = "done", ![i].reversals = @ + 1,
                                  ![i].reversal = ReversalPayload(r.id, r.amount)]
                /\ UNCHANGED failedRecon
           ELSE /\ failedRecon' = [failedRecon EXCEPT ![r.id] =
                                      @ \cup {"REVERSAL_INITIATION_FAILED"}]
                /\ RunSetStatus(i, "REVERSAL_INITIATION_FAILED")
                /\ runs' = [runs EXCEPT ![i].pc = "done", ![i].reversals = @ + 1,
                                  ![i].reversal = ReversalPayload(r.id, r.amount)]
                /\ UNCHANGED reconciled
        /\ UNCHANGED <<npushes, push, request, accepted, sales, floats, bonusSettings, bonusHistory, updates, credentialCache, errors, timeouts, response,
                       delivered, ncallbacks>>

\* The steps whose store operations sit in the outer try only
StoreSteps == {"start", "complete"}

\* Lines 1082-1115: a store operation of the outer try throws
FulfillCritical(i) ==
    LET r == Run(i)
    IN  /\ i \in DOMAIN runs
        /\ r.pc \in StoreSteps
        /\ RunSetStatus(i, "CRITICAL_FULFILLMENT_ERROR")
        /\ errors' = errors \cup {ErrorRecord("CRITICAL_FULFILLMENT_ERROR", "NONE", r.id)}
        /\ runs' = [runs EXCEPT ![i].pc = "done", ![i].result = "CRITICAL_ERROR",
                                ![i].thrown = r.pc]
        /\ UNCHANGED <<npushes, push, request, accepted, sales, floats, bonusSettings, bonusHistory, updates, credentialCache, reconciled, failedRecon,
                       timeouts, response, audit, delivered, ncallbacks>>

---------------------------------------------------------------------------
\* Specification

Next ==
    \/ \E id \in LocalIDs, rid \in RailIDs, recipient \in Recipients,
          amount \in Amounts, outcome \in PushOutcomes :
          StkPush(id, rid, recipient, amount, outcome)
    \/ \E rid \in RailIDs, recipient \in Recipients, amount \in PushAmounts,
          outcome \in PushOutcomes :
          StkPushValidating(rid, recipient, amount, outcome)
    \/ StkCallbackIgnored
    \/ \E id \in IDs : StkCallbackNoMatch(id)
    \/ \E id \in IDs : StkCallbackOfflineSuccess(id)
    \/ \E id \in IDs : StkCallbackOfflineFailure(id, 1032)
    \/ \E id \in IDs : StkCallbackStoreError(id)
    \/ StkCallbackMalformed
    \/ \E id \in IDs : StkCallbackUnknown(id)
    \/ \E id \in IDs, analyticsOk \in BOOLEAN : StkCallbackSuccess(id, analyticsOk)
    \/ \E id \in IDs : StkCallbackFailure(id, 1032)
    \/ DarajaReversalResultMissingId
    \/ \E id \in IDs, resultCode \in {0, 1} : DarajaReversalResult(id, resultCode)
    \/ \E id \in IDs \cup ConversationIDs : DarajaReversalTimeout(id)
    \/ \E i \in 1..MaxRuns : FulfillValidate(i)
    \/ \E i \in 1..MaxRuns : FulfillDebit(i)
    \/ \E i \in 1..MaxRuns : FulfillDebitThrows(i)
    \/ \E i \in 1..MaxRuns, success \in BOOLEAN, report \in Reports :
          FulfillSendDealer(i, success, report)
    \/ \E i \in 1..MaxRuns : FulfillRefund(i)
    \/ \E i \in 1..MaxRuns, success \in BOOLEAN : FulfillSendAggregator(i, success)
    \/ \E i \in 1..MaxRuns : FulfillCommission(i)
    \/ \E i \in 1..MaxRuns : FulfillOverwrite(i)
    \/ \E i \in 1..MaxRuns : FulfillOverwriteThrows(i)
    \/ \E i \in 1..MaxRuns : FulfillComplete(i)
    \/ \E i \in 1..MaxRuns : FulfillFailed(i)
    \/ \E i \in 1..MaxRuns, outcome \in ReversalOutcomes : FulfillReverse(i, outcome)
    \/ \E i \in 1..MaxRuns : FulfillCritical(i)

Spec == Init /\ [][Next]_vars

---------------------------------------------------------------------------
\* The bonus-settings endpoints (src/unnamed/part_001 1709-1781).  They touch
\* the settings document and its history only, and are run on their own
\* from the settings the payment handlers start with.

\* What the payment handlers own
payments == <<sales, transactions, floats, reconciled, failedRecon, errors,
              timeouts, runs, audit, delivered, singleStatus, ncallbacks,
              npushes, push, request, accepted>>

\* A percentage of a request body: a number (basis points) or something else
PercentageInput(isNum, value) == [isNum |-> isNum, value |-> value]

PercentageInputs ==
    {PercentageInput(FALSE, 0)}
        \cup {PercentageInput(TRUE, v) : v \in {0 - 100, 0, 475, 500}}

\* The actor of a request body, "NONE" when the body has none
Actors == {"admin", "NONE"}

\* Lines 1735-1738: typeof ... !== 'number' || ... < 0
InvalidPercentages(safaricomPercentage, africastalkingPercentage) ==
    \/ ~safaricomPercentage.isNum
    \/ ~africastalkingPercentage.isNum
    \/ safaricomPercentage.value < 0
    \/ africastalkingPercentage.value < 0

\* Line 1741: the stored settings, zeros when there is no document
oldSettings == bonusPercentages(bonusSettings)

\* Lines 1754-1760, 1764-1770: a history document
HistoryEntry(company, oldPercentage, newPercentage, actor) ==
    [company |-> company, oldPercentage |-> oldPercentage,
     newPercentage |-> newPercentage,
     actor |-> IF actor = "NONE" THEN "system" ELSE actor]

UpdateRecord(safaricomPercentage, africastalkingPercentage, actor, http) ==
    [safaricomPercentage |-> safaricomPercentage,
     africastalkingPercentage |-> africastalkingPercentage,
     actor |-> actor, http |-> http]

\* The update that logs both telcos whether their percentage changed or not
AirtimeBonusesUpdate_AlwaysLogs(safaricomPercentage, africastalkingPercentage, actor, ok) ==
    LET http == IF InvalidPercentages(safaricomPercentage, africastalkingPercentage)
                THEN 400 ELSE IF ok THEN 200 ELSE 500
    IN  /\ Len(updates) < MaxUpdates
        /\ updates' = Append(updates, UpdateRecord(safaricomPercentage,
                                                   africastalkingPercentage, actor, http))
        /\ response' = Response("/api/airtime-bonuses/update", http, 0)
        /\ IF http = 200
           THEN /\ bonusSettings' = [exists |-> TRUE,
                                     safaricomPercentage |-> safaricomPercentage.value,
                                     africastalkingPercentage |-> africastalkingPercentage.value]
                /\ bonusHistory' = bonusHistory \o
                      <<HistoryEntry("Safaricom", oldSettings.safaricomBonus,
                                     safaricomPercentage.value, actor),
                        HistoryEntry("AfricasTalking", oldSettings.atBonus,
                                     africastalkingPercentage.value, actor)>>
           ELSE UNCHANGED <<bonusSettings, bonusHistory>>
        /\ UNCHANGED <<payments, credentialCache>>

\* POST /api/airtime-bonuses/update (lines 1732-1781).  ok: the store answers
\* the read and the batch; the batch is atomic, so a failure changes nothing.
AirtimeBonusesUpdate(safaricomPercentage, africastalkingPercentage, actor, ok) ==
    LET http == IF InvalidPercentages(safaricomPercentage, africastalkingPercentage)
                THEN 400 ELSE IF ok THEN 200 ELSE 500
        safaricomEntry ==
            IF safaricomPercentage.value # oldSettings.safaricomBonus
            THEN <<HistoryEntry("Safaricom", oldSettings.safaricomBonus,
                                safaricomPercentage.value, actor)>>
            ELSE <<>>
        africastalkingEntry ==
            IF africastalkingPercentage.value # oldSettings.atBonus
            THEN <<HistoryEntry("AfricasTalking", oldSettings.atBonus,
                                africastalkingPercentage.value, actor)>>
            ELSE <<>>
    IN  /\ Len(updates) < MaxUpdates
        /\ updates' = Append(updates, UpdateRecord(safaricomPercentage,
                                                   africastalkingPercentage, actor, http))
        /\ response' = Response("/api/airtime-bonuses/update", http, 0)
        /\ IF http = 200
           THEN /\ bonusSettings' = [exists |-> TRUE,
                                     safaricomPercentage |-> safaricomPercentage.value,
                                     africastalkingPercentage |-> africastalkingPercentage.value]
                /\ bonusHistory' = bonusHistory \o safaricomEntry \o africastalkingEntry
           ELSE UNCHANGED <<bonusSettings, bonusHistory>>
        /\ UNCHANGED <<payments, credentialCache>>

\* GET /api/airtime-bonuses/current (lines 1710-1728): a missing settings
\* document is created with zeros
AirtimeBonusesCurrent(ok) ==
    /\ response' = Response("/api/airtime-bonuses/current", IF ok THEN 200 ELSE 500, 0)
    /\ bonusSettings' = IF ok /\ ~bonusSettings.exists
                        THEN [exists |-> TRUE, safaricomPercentage |-> 0,
                              africastalkingPercentage |-> 0]
                        ELSE bonusSettings
    /\ UNCHANGED <<bonusHistory, updates>>
    /\ UNCHANGED <<payments, credentialCache>>

BonusNext ==
    \/ \E safaricomPercentage \in PercentageInputs,
          africastalkingPercentage \in PercentageInputs,
          actor \in Actors, ok \in BOOLEAN :
            AirtimeBonusesUpdate(safaricomPercentage, africastalkingPercentage, actor, ok)
    \/ \E ok \in BOOLEAN : AirtimeBonusesCurrent(ok)

BonusSpec == Init /\ [][BonusNext]_vars

---------------------------------------------------------------------------
\* The credential caches of the dealer API (src/unnamed/part_001 138-232).
\* Time is counted in seconds.  They touch the variables of credentialCache
\* only, and are run on their own.

MaxCredentialCalls == 3

\* DEALER_PIN_CACHE_TTL = 10 * 60 * 1000 ms
DEALER_PIN_CACHE_TTL == 600

\* Line 160: now + 3599 * 1000 ms
TokenCacheSeconds == 3599

\* The seconds that pass between one credential request and the next
Delays == {1, 599, 1800, 3598}

\* The expires_in a grant response may advertise; 0: the grant call fails
GrantLifetimes == {1800, 3599}

\* The servicePin the store may hold; "NONE": no document, no field, or the
\* read fails
StorePins == {"1111", "2222"}

\* What the other specifications own
notCredentials == <<payments, bonusSettings, bonusHistory, updates, response>>

\* getCachedAirtimeToken (lines 142-173), called delay seconds after the
\* request before it.  grant: the expires_in of the grant response, which the
\* code does not read, 0 when the grant call fails and the function throws.
GetCachedAirtimeToken(delay, grant) ==
    LET t == now + delay
        hit == cachedAirtimeToken # 0 /\ t < tokenExpiryTimestamp
        token == credentialCalls.calls + 1
    IN  /\ credentialCalls.calls < MaxCredentialCalls
        /\ now' = t
        /\ IF hit
           THEN /\ credentialCalls' = [credentialCalls EXCEPT
                                         !.calls = @ + 1, !.last = "token",
                                         !.fetched = FALSE, !.token = cachedAirtimeToken]
                /\ UNCHANGED <<cachedAirtimeToken, tokenExpiryTimestamp>>
           ELSE IF grant = 0
           THEN /\ credentialCalls' = [credentialCalls EXCEPT
                                         !.calls = @ + 1, !.last = "token",
                                         !.fetched = TRUE, !.token = 0]
                /\ UNCHANGED <<cachedAirtimeToken, tokenExpiryTimestamp>>
           ELSE /\ cachedAirtimeToken' = token
                /\ tokenExpiryTimestamp' = t + TokenCacheSeconds
                /\ credentialCalls' = [credentialCalls EXCEPT
                                         !.calls = @ + 1, !.last = "token",
                                         !.fetched = TRUE, !.token = token,
                                         !.tokenFetchedAt = t, !.advertised = grant]
        /\ UNCHANGED <<cachedDealerServicePin, dealerPinExpiryTimestamp>>
        /\ UNCHANGED notCredentials

\* getDealerServicePin (lines 194-232), called delay seconds after the
\* request before it.  servicePin: what mpesa_settings/main_config holds.
GetDealerServicePin(delay, servicePin) ==
    LET t == now + delay
        hit == cachedDealerServicePin # "NONE" /\ t < dealerPinExpiryTimestamp
    IN  /\ credentialCalls.calls < MaxCredentialCalls
        /\ now' = t
        /\ IF hit
           THEN /\ credentialCalls' = [credentialCalls EXCEPT
                                         !.calls = @ + 1, !.last = "pin",
                                         !.fetched = FALSE, !.pin = cachedDealerServicePin]
                /\ UNCHANGED <<cachedDealerServicePin, dealerPinExpiryTimestamp>>
           ELSE IF servicePin = "NONE"
           THEN /\ credentialCalls' = [credentialCalls EXCEPT
                                         !.calls = @ + 1, !.last = "pin",
                                         !.fetched = TRUE, !.pin = "NONE"]
                /\ UNCHANGED <<cachedDealerServicePin, dealerPinExpiryTimestamp>>
           ELSE /\ cachedDealerServicePin' = servicePin
                /\ dealerPinExpiryTimestamp' = t + DEALER_PIN_CACHE_TTL
                /\ credentialCalls' = [credentialCalls EXCEPT
                                         !.calls = @ + 1, !.last = "pin",
                                         !.fetched = TRUE, !.pin = servicePin,
                                         !.pinFetchedAt = t]
        /\ UNCHANGED <<cachedAirtimeToken, tokenExpiryTimestamp>>
        /\ UNCHANGED notCredentials

CacheNext ==
    \/ \E delay \in Delays, grant \in GrantLifetimes \cup {0} :
          GetCachedAirtimeToken(delay, grant)
    \/ \E delay \in Delays, servicePin \in StorePins \cup {"NONE"} :
          GetDealerServicePin(delay, servicePin)

CacheSpec == Init /\ [][CacheNext]_vars

---------------------------------------------------------------------------
\* Properties

RunsOf(id) == {i \in DOMAIN runs : runs[i].id = id}

\* No fulfilment of the request is under way
Quiet(id) == \A i \in RunsOf(id) : runs[i].pc = "done"

\* A pending-reversal record in reconciled_transactions or a reversal-failed
\* record in failed_reconciliations
ReversalOnRecord(id) ==
    \/ reconciled[id] # "NO_DOC"
    \/ failedRecon[id] \cap {"REVERSAL_INITIATION_FAILED", "REVERSAL_FAILED_CONFIRMATION"} # {}

FulfilledAsPaid(id) ==
    /\ transactions[id] = "COMPLETED_AND_FULFILLED"
    /\ sales[id].exists
    /\ sales[id].dispatched = sales[id].originalAmountPaid + sales[id].bonusApplied

\* C1: at the step where the fulfilment run of a confirmed payment finishes,
\* either the transaction is COMPLETED_AND_FULFILLED with a sale record whose
\* dispatched amount is original plus bonus, or a reversal record of the
\* request exists.
C1_DeliveredOrReversalOnRecord ==
    [][\A i \in DOMAIN runs :
          (runs[i].pc # "done" /\ runs'[i].pc = "done")
             => (FulfilledAsPaid(runs[i].id) \/ ReversalOnRecord(runs[i].id))']_vars

\* A run that finished on the unknown-carrier path and left no reversal record
C1_UnknownCarrierNoReversal ==
    \E i \in DOMAIN runs :
        /\ runs[i].pc = "done"
        /\ runs[i].result = "FAILED_UNKNOWN_CARRIER"
        /\ ~ReversalOnRecord(runs[i].id)

\* C2: however often the payment-success callback of a request is delivered,
\* its side effects are those of one delivery: at most one debit of each
\* float, at most one call of each provider, at most one reversal request and
\* one sale record.
C2_DuplicateSuccessHasNoFurtherEffect ==
    \A id \in IDs :
        /\ audit[id].safDebits <= 1
        /\ audit[id].atDebits <= 1
        /\ audit[id].dealerCalls <= 1
        /\ audit[id].atCalls <= 1
        /\ audit[id].reversalRequests <= 1
        /\ (RunsOf(id) # {} => sales[id].exists)

\* The same success callback delivered twice, the home float debited twice
C2_DebitedTwice ==
    \E id \in IDs :
        /\ Cardinality(RunsOf(id)) = 2
        /\ \A i \in RunsOf(id) : runs[i].amount = sales[id].amount
        /\ audit[id].safDebits = 2
        /\ audit[id].dealerCalls = 2

\* C3: when no fulfilment of a request is under way, its status is the one
\* the first deliveries of its callbacks alone produce.
C3_DuplicatesEndLikeSingleDelivery ==
    \A id \in IDs : Quiet(id) => transactions[id] = singleStatus[id]

\* A request completed by the first delivery, pending reversal after the second
C3_CompletedThenPendingReversal ==
    \E id \in IDs :
        /\ Quiet(id)
        /\ singleStatus[id] = "COMPLETED_AND_FULFILLED"
        /\ transactions[id] = "REVERSAL_PENDING_CONFIRMATION"

\* C4: in every reachable state both float balances are numbers >= 0.
C4_FloatsAreNonNegativeNumbers ==
    \A f \in FloatNames : floats[f].isNum /\ floats[f].balance >= 0

\* The home float holds no number after the overwrite
C4_HomeFloatNotANumber ==
    /\ ~floats["safaricomFloat"].isNum
    /\ \E i \in DOMAIN runs : runs[i].pc \in {"complete", "done"} /\ ~runs[i].reported.isNum
                              /\ runs[i].reported.has

\* C5: a fulfilment that ended with dispatch failed has moved neither float
\* and credited no commission.
C5_FailedDispatchLeavesFloats ==
    \A i \in DOMAIN runs :
        runs[i].result = "FAILED_DISPATCH_API"
           => runs[i].dSaf = 0 /\ runs[i].dAt = 0 /\ runs[i].commission = 0

\* A fulfilment of a non-home request ended with dispatch failed and the
\* aggregator float still debited
C5_AggregatorDebitKept ==
    \E i \in DOMAIN runs :
        /\ runs[i].result = "FAILED_DISPATCH_API"
        /\ runs[i].provider = "AfricasTalkingDirect"
        /\ runs[i].dAt = 0 - runs[i].final
        /\ runs[i].final > 0

\* The only fulfilment there is has ended with dispatch succeeded, and the
\* dealer response, if there was one, carried a balance
OnlyRunDelivered(i) ==
    /\ DOMAIN runs = {i}
    /\ runs[i].pc = "done"
    /\ runs[i].dispatch = "COMPLETED"
    /\ runs[i].reported.has => runs[i].reported.isNum

C7_DebitBeforeCall ==
    \A i \in DOMAIN runs :
        runs[i].pc = "send" =>
            /\ runs[i].provider = "SafaricomDealer"
                  => runs[i].dSaf = 0 - runs[i].final
            /\ runs[i].provider \in {"AfricasTalkingDirect", "AfricasTalkingFallback"}
                  => runs[i].dAt = 0 - runs[i].final
            /\ runs[i].provider = "AfricasTalkingFallback" => runs[i].dSaf = 0

\* A run about to call the fallback after the dealer was called
C7_AboutToCallFallback ==
    \E i \in DOMAIN runs :
        /\ runs[i].pc = "send"
        /\ runs[i].provider = "AfricasTalkingFallback"
        /\ runs[i].final > 0
        /\ audit[runs[i].id].dealerCalls >= 1

\* C8: every answer of a callback endpoint is HTTP 200 with ResultCode 0.
C8_CallbacksAnswer200 ==
    response.endpoint \in {"/stk-callback", "/daraja-reversal-result",
                           "/daraja-reversal-timeout"}
       => response.http = 200 /\ response.ResultCode = 0

\* The reversal-result endpoint answered with a server error
C8_ReversalResultAnswered500 ==
    response = Response("/daraja-reversal-result", 500, 0)

\* C9: a transaction whose status is terminal keeps that status.
C9_TerminalStatusIsKept ==
    [][\A id \in IDs :
          transactions[id] \in {"MPESA_PAYMENT_FAILED", "COMPLETED_AND_FULFILLED",
                                "REVERSED_SUCCESSFULLY",
                                "REVERSAL_FAILED_CONFIRMATION", "REVERSAL_TIMED_OUT"}
             => transactions'[id] = transactions[id]]_vars

\* A request whose payment failed and that is completed and fulfilled
C9_FailedPaymentFulfilled ==
    \E id \in IDs :
        /\ <<"stk", id, 1032, 0>> \in delivered
        /\ transactions[id] = "COMPLETED_AND_FULFILLED"

ReversalCallback ==
    \/ \E id \in IDs, resultCode \in {0, 1} : DarajaReversalResult(id, resultCode)
    \/ \E id \in IDs : DarajaReversalTimeout(id)

\* C10: a reversal-result or reversal-timeout callback changes the status of
\* a transaction only if that status is REVERSAL_PENDING_CONFIRMATION.
C10_ReversalCallbackNeedsPendingReversal ==
    [][ReversalCallback =>
          \A id \in IDs :
              transactions'[id] # transactions[id]
                 => transactions[id] = "REVERSAL_PENDING_CONFIRMATION"]_vars

\* A completed transaction that a reversal callback marked reversed
C10_CompletedMarkedReversed ==
    \E id \in IDs :
        /\ transactions[id] = "REVERSED_SUCCESSFULLY"
        /\ sales[id].status = "COMPLETED"
        /\ reconciled[id] = "NO_DOC"

\* The request has been initiated and no payment callback has reached it: the
\* initiation stored it awaiting the confirmation and no status is written yet
PushInitiated(id) ==
    /\ sales[id].exists
    /\ sales[id].mpesaPaymentStatus = "PENDING_MPESA_CONFIRMATION"
    /\ transactions[id] = "NO_DOC"

\* A payment callback with the result code 1032 (cancelled by the user)
FailedPaymentCallback(id) ==
    \/ StkCallbackFailure(id, 1032)
    \/ StkCallbackOfflineFailure(id, 1032)

\* C11: a payment callback with a non-zero result code for an initiated
\* request sets the transaction status to MPESA_PAYMENT_FAILED, leaves both
\* float balances unchanged, calls no provider and submits no reversal.
C11_FailedPaymentOnlyMarksFailed ==
    [][\A id \in IDs :
          (PushInitiated(id) /\ FailedPaymentCallback(id))
             => /\ transactions'[id] = "MPESA_PAYMENT_FAILED"
                /\ floats' = floats
                /\ audit' = audit
                /\ runs' = runs
                /\ reconciled' = reconciled]_vars

\* The failed payment of an initiated request left the request without a
\* transaction status, and the update of the missing document was logged
C11_FailedPaymentLeftNoStatus ==
    \E id \in IDs :
        /\ <<"stk", id, 1032, 0>> \in delivered
        /\ sales[id].mpesaPaymentStatus = "FAILED_OR_CANCELLED"
        /\ transactions[id] = "NO_DOC"
        /\ ErrorRecord("STK_CALLBACK_FAILED_PAYMENT_UPDATE_ERROR", "NONE", id) \in errors

\* The payment callback finds the request under the id: the lookup of lines
\* 1446-1450 (src/server.js 1256) succeeds
CallbackFinds(id) == sales[id].exists

\* C12: for every CheckoutRequestID the rail issued with response code 0, a
\* record of the request exists under that id, so that the payment callback
\* carrying the id finds the request.
C12_AcceptedPushIsOnRecord ==
    \A rid \in accepted :
        CallbackFinds(rid) \/ transactions[rid] # "NO_DOC"

\* The rail accepted the push, and the payment callback carrying the id it
\* issued was answered as one for an unknown request
C12_AcceptedPushUnknownToCallback ==
    \E rid \in accepted :
        /\ push.code = "0" /\ push.id = rid
        /\ ~CallbackFinds(rid)
        /\ ncallbacks > 0
        /\ response = Response("/stk-callback", 200, 0)
        /\ ErrorRecord("STK_CALLBACK_ERROR", "NONE", rid) \in errors

\* A step of POST /stk-push
Initiation == npushes' = npushes + 1

\* The error entries the initiation handlers write
PushErrorTypes ==
    {"STK_PUSH_INITIATION_ERROR", "STK_PUSH_INITIATION_FAILED_BY_DARJA",
     "STK_PUSH_CRITICAL_INITIATION_ERROR"}

\* C13: an initiation whose push the rail did not accept (response code other
\* than 0, or the call failed) writes no request, sale or transaction record,
\* logs an error and answers 4xx/5xx; an initiation writes a record only when
\* the rail answered with response code 0.
C13_RefusedPushWritesNoRecord ==
    [][Initiation =>
          /\ (push'.sent /\ push'.code # "0") =>
                /\ sales' = sales
                /\ transactions' = transactions
                /\ \E e \in errors' : e.type \in PushErrorTypes
                /\ response'.http >= 400
                /\ response'.ResultCode # 0
          /\ (sales' # sales \/ transactions' # transactions) => push'.code = "0"]_vars

\* The rail answered with a response code other than 0; the request is on
\* record and the client was told the push succeeded
C13_RefusedPushStoredAndAnswered200 ==
    /\ push.sent /\ push.code = "1"
    /\ response = Response("/stk-push", 200, 0)
    /\ \E id \in LocalIDs : PushInitiated(id)
    /\ errors = {}

\* A step of POST /stk-push of src/unnamed/part_001 whose body carries an amount
ValidatedInitiation ==
    /\ Initiation
    /\ request'.handler = "part_001"
    /\ request'.amount # 0

C15_UnknownCarrierInitiationRejected ==
    [][(/\ Initiation
        /\ request'.amount # 0
        /\ detectCarrier(Digits(request'.recipient)) = "Unknown")
          => /\ response'.http \in 400..499
             /\ ~push'.sent
             /\ sales' = sales
             /\ transactions' = transactions]_vars

\* A request for a recipient of unknown carrier is on record, its push was
\* sent and accepted, and the client was told so
C15_UnknownCarrierPushed ==
    \E id \in LocalIDs :
        /\ PushInitiated(id)
        /\ sales[id].carrier = "Unknown"
        /\ push.sent /\ push.code = "0"
        /\ response = Response("/stk-push", 200, 0)

\* The step in which run i returns
Finishes(i) == runs[i].pc # "done" /\ runs'[i].pc = "done"

\* The amount paid is within the limits the fulfilment checks (lines 692-696)
AmountInRange(amount) ==
    amountInt(amount) >= MIN_AMOUNT /\ amountInt(amount) <= MAX_AMOUNT

\* C16: the fulfilment of a confirmed payment whose destination classifies
\* to the carrier Unknown returns with a reversal request submitted and the
\* status REVERSAL_PENDING_CONFIRMATION or REVERSAL_INITIATION_FAILED.
C16_UnknownCarrierTakesReversalPath ==
    [][\A i \in DOMAIN runs :
          (/\ Finishes(i)
           /\ detectCarrier(runs[i].recipient) = "Unknown"
           /\ runs'[i].result # "CRITICAL_ERROR")
             => /\ audit'[runs[i].id].reversalRequests >= 1
                /\ transactions'[runs[i].id] \in {"REVERSAL_PENDING_CONFIRMATION",
                                                  "REVERSAL_INITIATION_FAILED"}]_vars

\* The only fulfilment of a paid request for an unknown carrier has returned;
\* no reversal was requested and the status rests in RECEIVED_FULFILLMENT_FAILED
C16_UnknownCarrierRestsFailed ==
    \E id \in IDs :
        /\ Cardinality(RunsOf(id)) = 1
        /\ \A i \in RunsOf(id) :
              /\ runs[i].pc = "done"
              /\ AmountInRange(runs[i].amount)
              /\ detectCarrier(runs[i].recipient) = "Unknown"
        /\ audit[id].reversalRequests = 0
        /\ transactions[id] = "RECEIVED_FULFILLMENT_FAILED"
        /\ sales[id].mpesaPaymentStatus = "RECEIVED_PENDING_FULFILLMENT"

NonHomeCarriers == {"Airtel", "Telkom", "Equitel", "Faiba"}

\* C18: a run calls each provider at most once; for a Safaricom destination
\* the aggregator is called only after the dealer was called and reported
\* failure; for a supported non-home destination the dealer is never called;
\* and no provider is called for any other destination.
C18_ProviderFollowsCarrier ==
    \A i \in DOMAIN runs :
        LET r == runs[i]
            carrier == detectCarrier(r.recipient)
        IN  /\ r.dealerCalls <= 1
            /\ r.atCalls <= 1
            /\ (carrier = "Safaricom" /\ r.atCalls = 1)
                  => r.dealerCalls = 1 /\ r.dealerResult = "FAILED"
            /\ carrier \in NonHomeCarriers => r.dealerCalls = 0
            /\ carrier \notin NonHomeCarriers \cup {"Safaricom"}
                  => r.dealerCalls = 0 /\ r.atCalls = 0

\* A Safaricom run whose dealer call failed has called the aggregator
C18_FallbackCalledAfterDealerFailed ==
    \E i \in DOMAIN runs :
        /\ detectCarrier(runs[i].recipient) = "Safaricom"
        /\ runs[i].dealerCalls = 1
        /\ runs[i].dealerResult = "FAILED"
        /\ runs[i].atCalls = 1

\* The aggregator was called in run i and delivered
AggregatorDelivered(i) ==
    /\ runs[i].atCalls = 1
    /\ runs[i].dispatch = "COMPLETED"
    /\ runs[i].provider \in {"AfricasTalkingDirect", "AfricasTalkingFallback"}

C20_PendingReversalWasAccepted ==
    \A id \in IDs :
        transactions[id] = "REVERSAL_PENDING_CONFIRMATION"
           => audit[id].reversalsAccepted >= 1

\* The dispatch of a paid request failed, the rail accepted the reversal and
\* the transaction awaits its confirmation
C20_FailedDispatchAwaitsReversal ==
    \E i \in DOMAIN runs :
        /\ runs[i].pc = "done"
        /\ runs[i].result = "FAILED_DISPATCH_API"
        /\ audit[runs[i].id].reversalsAccepted = 1
        /\ audit[runs[i].id].reversalRequests = 1
        /\ transactions[runs[i].id] = "REVERSAL_PENDING_CONFIRMATION"

C22_ReversalCallbacksMovePending ==
    [][\A id \in IDs :
          transactions[id] = "REVERSAL_PENDING_CONFIRMATION" =>
             /\ DarajaReversalResult(id, 0)
                   => transactions'[id] = "REVERSED_SUCCESSFULLY"
             /\ DarajaReversalResult(id, 1)
                   => transactions'[id] = "REVERSAL_FAILED_CONFIRMATION"
             /\ DarajaReversalTimeout(OriginatorConversationID(id))
                   => transactions'[id] = "REVERSAL_TIMED_OUT"]_vars

\* The timeout of an accepted reversal was received and recorded, and the
\* transaction still awaits the confirmation
C22_TimedOutReversalStillPending ==
    \E id \in IDs :
        /\ transactions[id] = "REVERSAL_PENDING_CONFIRMATION"
        /\ audit[id].reversalsAccepted >= 1
        /\ OriginatorConversationID(id) \in timeouts
        /\ response = Response("/daraja-reversal-timeout", 200, 0)

\* C23: a fulfilment in which a step up to the end of the dispatch raised
\* an unexpected error returns with the transaction status
\* CRITICAL_FULFILLMENT_ERROR and an error record of that type for the
\* request-id.
C23_UnexpectedErrorIsCritical ==
    [][\A i \in DOMAIN runs :
          (Finishes(i) /\ runs'[i].thrown # "NONE")
             => /\ transactions'[runs[i].id] = "CRITICAL_FULFILLMENT_ERROR"
                /\ ErrorRecord("CRITICAL_FULFILLMENT_ERROR", "NONE", runs[i].id)
                      \in errors']_vars

\* The store failed while the float was being debited; the only fulfilment of
\* the request has returned, the reversal is pending and no critical error is
\* on record
C23_StoreErrorEndedAsFailedDispatch ==
    \E i \in DOMAIN runs :
        /\ DOMAIN runs = {i}
        /\ runs[i].pc = "done"
        /\ runs[i].thrown = "debit"
        /\ runs[i].result = "FAILED_DISPATCH_API"
        /\ transactions[runs[i].id] = "REVERSAL_PENDING_CONFIRMATION"
        /\ ErrorRecord("CRITICAL_FULFILLMENT_ERROR", "NONE", runs[i].id) \notin errors

\* The adjustments (mills) tried on the stored balances: debits and credits
\* of the sizes the fulfilment makes, and larger debits
Deltas == {0 - 26000, 0 - 15000, 0 - 10500, 0 - 10000, 0 - 5000, 0, 400, 10000, 10500}

\* C24: on a float whose stored balance is the number current, the adjustment
\* by delta succeeds exactly when current + delta >= 0 and then stores and
\* returns current + delta; otherwise it fails with the insufficient-float
\* error and the stored balance is unchanged.
C24_AdjustmentSucceedsIffNonNegative ==
    \A f \in FloatNames, delta \in Deltas :
        LET doc == floats[f]
            res == updateCarrierFloatBalance(doc, delta)
        IN  doc.isNum =>
               /\ res.ok <=> doc.balance + delta >= 0
               /\ res.ok => res.doc = FloatDoc(doc.balance + delta)
               /\ ~res.ok => res.error = "INSUFFICIENT_FLOAT" /\ res.doc = doc

\* A fulfilment whose debit of the home float was refused for insufficient
\* float: no provider was called and the balance is below the amount
C24_DebitRefused ==
    \E i \in DOMAIN runs :
        /\ runs[i].pc = "failed"
        /\ runs[i].thrown = "NONE"
        /\ runs[i].provider = "SafaricomDealer"
        /\ runs[i].dealerCalls = 0
        /\ runs[i].dSaf = 0
        /\ floats["safaricomFloat"].isNum
        /\ floats["safaricomFloat"].balance < runs[i].final
        /\ ~updateCarrierFloatBalance(floats["safaricomFloat"], 0 - runs[i].final).ok

\* The record the fulfilment writes when the store refuses the overwrite
OverwriteWarning(id) ==
    ErrorRecord("FLOAT_RECONCILIATION_WARNING",
                "SAFARICOM_REPORTED_BALANCE_UPDATE_FAILED", id)

\* The dealer delivered in run i and its response carried a new balance
DealerReportedBalance(i) ==
    /\ runs[i].provider = "SafaricomDealer"
    /\ runs[i].dealerResult = "SUCCESS"
    /\ runs[i].reported.has
    /\ runs[i].reported.isNum

---------------------------------------------------------------------------
\* C26

\* bonusAmount of server.js (lines 606-617): half-up to whole shillings for
\* the other telcos, cut to two decimals for the home telco, zero for a zero
\* percentage
bonusAmount(carrier, amount, safaricomBonus, atBonus) ==
    IF carrier = "Safaricom"
    THEN IF safaricomBonus > 0 THEN applyBonusFixed(amount, safaricomBonus, FALSE) ELSE 0
    ELSE IF atBonus > 0 THEN applyBonusFixed(amount, atBonus, TRUE) ELSE 0

\* A fulfilment whose bonus has been computed
BonusComputed(i) == runs[i].carrier # "NONE"

\* C26: the amount recorded in the sale when the bonus is computed, and the
\* amount handed to the provider when it is called, are the original amount
\* plus the bonus: percentage of the amount rounded half-up to whole shillings
\* for the other telcos, cut to two decimals for the home telco, zero when the
\* percentage is zero or there are no settings.
C26_DispatchedIsAmountPlusBonus ==
    [][\A i \in DOMAIN runs :
          LET id == runs[i].id
              expected == runs'[i].amount
                             + bonusAmount(runs'[i].carrier, runs'[i].amount,
                                              runs'[i].safaricomBonus, runs'[i].atBonus)
          IN  /\ (~BonusComputed(i) /\ runs'[i].carrier # "NONE")
                    => /\ sales'[id].dispatched = expected
                       /\ sales'[id].bonusApplied = expected - runs[i].amount
                       /\ ~bonusSettings.exists
                             => sales'[id].dispatched = runs[i].amount
              /\ runs'[i].sent # runs[i].sent => runs'[i].sent = expected]_vars

\* A home-telco sale was recorded with a three-decimal amount (10.475) and
\* the dealer asked for 10.48
C26_RawBonusRecorded ==
    \E i \in DOMAIN runs :
        /\ runs[i].carrier = "Safaricom"
        /\ runs[i].dealerCalls = 1
        /\ sales[runs[i].id].dispatched % MillsPerCent # 0
        /\ sales[runs[i].id].dispatched = runs[i].amount + rawBonusOf(runs[i].amount, runs[i].safaricomBonus)
        /\ runs[i].sent = adjustedAmount(sales[runs[i].id].dispatched)
        /\ runs[i].sent # sales[runs[i].id].dispatched

\* The same statement with the home-telco bonus as the code keeps it, and
\* the home dealer asked for whole cents
C26_OtherTelcosAndZeroAsSpecified ==
    [][\A i \in DOMAIN runs :
          LET id == runs[i].id
              home == runs'[i].carrier = "Safaricom"
              expected == runs'[i].amount
                             + bonusAmount(runs'[i].carrier, runs'[i].amount,
                                              runs'[i].safaricomBonus, runs'[i].atBonus)
          IN  /\ (~BonusComputed(i) /\ runs'[i].carrier # "NONE")
                    => /\ ~home => sales'[id].dispatched = expected
                       /\ home => toFixed2(sales'[id].dispatched) = expected
                       /\ ~bonusSettings.exists
                             => sales'[id].dispatched = runs[i].amount
              /\ runs'[i].sent # runs[i].sent
                    => IF runs'[i].provider = "SafaricomDealer"
                       THEN runs'[i].sent = toFixed2(runs[i].final)
                       ELSE runs'[i].sent = runs[i].final]_vars

---------------------------------------------------------------------------
\* C27

\* The history entries a valid update owes: one for each telco whose new
\* percentage differs from the stored one (zero when nothing is stored)
OwedEntries(safaricomPercentage, africastalkingPercentage, actor) ==
    LET who == IF actor = "NONE" THEN "system" ELSE actor
        stored == [Safaricom |-> IF bonusSettings.exists
                                 THEN bonusSettings.safaricomPercentage ELSE 0,
                   AfricasTalking |-> IF bonusSettings.exists
                                      THEN bonusSettings.africastalkingPercentage ELSE 0]
    IN  (IF safaricomPercentage.value = stored.Safaricom THEN {}
         ELSE {[company |-> "Safaricom", oldPercentage |-> stored.Safaricom,
                newPercentage |-> safaricomPercentage.value, actor |-> who]})
        \cup
        (IF africastalkingPercentage.value = stored.AfricasTalking THEN {}
         ELSE {[company |-> "AfricasTalking", oldPercentage |-> stored.AfricasTalking,
                newPercentage |-> africastalkingPercentage.value, actor |-> who]})

\* The entries written by the step
EntriesWritten ==
    {bonusHistory'[k] : k \in (Len(bonusHistory) + 1)..Len(bonusHistory')}

\* C27: an update with non-negative numeric percentages that the store
\* carries out stores the new percentages and appends exactly one history
\* entry (old, new, telco, actor) for each telco whose percentage differs
\* from the stored one, so an update equal to the stored settings appends
\* none; an update with a negative or non-numeric percentage is answered 400
\* and leaves settings and history as they were.
C27_UpdateLogsChangedPercentages ==
    [][\A safaricomPercentage \in PercentageInputs,
          africastalkingPercentage \in PercentageInputs, actor \in Actors :
          AirtimeBonusesUpdate(safaricomPercentage, africastalkingPercentage, actor, TRUE)
             => IF /\ safaricomPercentage.isNum /\ safaricomPercentage.value >= 0
                   /\ africastalkingPercentage.isNum /\ africastalkingPercentage.value >= 0
                THEN /\ response'.http = 200
                     /\ bonusSettings'.exists
                     /\ bonusSettings'.safaricomPercentage = safaricomPercentage.value
                     /\ bonusSettings'.africastalkingPercentage = africastalkingPercentage.value
                     /\ SubSeq(bonusHistory', 1, Len(bonusHistory)) = bonusHistory
                     /\ EntriesWritten
                           = OwedEntries(safaricomPercentage, africastalkingPercentage, actor)
                     /\ Len(bonusHistory') - Len(bonusHistory)
                           = Cardinality(OwedEntries(safaricomPercentage,
                                                     africastalkingPercentage, actor))
                     /\ (/\ bonusSettings.exists
                         /\ bonusSettings.safaricomPercentage = safaricomPercentage.value
                         /\ bonusSettings.africastalkingPercentage
                               = africastalkingPercentage.value)
                           => bonusHistory' = bonusHistory
                ELSE /\ response'.http = 400
                     /\ bonusSettings' = bonusSettings
                     /\ bonusHistory' = bonusHistory]_vars

\* The same valid update was carried out twice, the first changed one
\* percentage and was logged once, the second logged nothing
C27_RepeatedUpdateLoggedOnce ==
    /\ Len(updates) = 2
    /\ updates[1].http = 200
    /\ updates[2] = updates[1]
    /\ Len(bonusHistory) = 1
    /\ bonusHistory[1].newPercentage = bonusSettings.africastalkingPercentage
    /\ bonusHistory[1].company = "AfricasTalking"
    /\ bonusHistory[1].actor = "system"

---------------------------------------------------------------------------
\* C28

\* A run of POST /stk-callback of part_001 on a callback for the id, to its end
PaymentCallbackHandled(id) ==
    \/ StkCallbackIgnored
    \/ StkCallbackNoMatch(id)
    \/ StkCallbackOfflineSuccess(id)
    \/ StkCallbackOfflineFailure(id, 1032)
    \/ StkCallbackStoreError(id)

\* C28: every payment callback the handler has been given is answered: the
\* handler ends with a response to the rail, also when a store operation or
\* an outbound call of its processing returned an error.
C28_PaymentCallbackAnswered ==
    [][\A id \in IDs :
          PaymentCallbackHandled(id)
             => /\ response'.endpoint = "/stk-callback"
                /\ response'.http # 0]_vars

\* Every callback whose first store read is answered gets its response, the
\* failed update of a missing transaction document included
C28_AnsweredWhenReadSucceeds ==
    [][\A id \in IDs :
          (PaymentCallbackHandled(id) /\ ~StkCallbackStoreError(id))
             => response' = Response("/stk-callback", 200, 0)]_vars

---------------------------------------------------------------------------
\* C29

\* A float stands debited for the fulfilment and the outcome of its dispatch
\* has not been written to the transaction yet
DebitedAwaitingOutcome(i) ==
    /\ runs[i].pc \in {"send", "refund", "commission", "overwrite", "complete", "failed"}
    /\ runs[i].dSaf < 0 \/ runs[i].dAt < 0

\* C29: while a float stands debited for a request and the outcome of the
\* dispatch has not been recorded, the stored status of the transaction is
\* FULFILLMENT_IN_PROGRESS.
C29_DebitedMeansInProgress ==
    \A i \in DOMAIN runs :
        DebitedAwaitingOutcome(i)
           => transactions[runs[i].id] = "FULFILLMENT_IN_PROGRESS"

\* The float is debited and the provider about to be called while the
\* transaction still reads RECEIVED_PENDING_FULFILLMENT
C29_DebitedWhilePendingFulfillment ==
    \E i \in DOMAIN runs :
        /\ runs[i].pc = "send"
        /\ runs[i].dSaf = 0 - runs[i].final
        /\ transactions[runs[i].id] = "RECEIVED_PENDING_FULFILLMENT"

---------------------------------------------------------------------------
\* C30

\* The stored states of a transaction whose payment has not been confirmed:
\* no document, or a failed or cancelled payment
UnconfirmedStatuses ==
    {"NO_DOC", "PUSH_INITIATED", "MPESA_PAYMENT_FAILED", "PAYMENT_FAILED_OR_CANCELLED"}

\* C30: a sale document exists for a request id exactly when its transaction
\* has reached RECEIVED_PENDING_FULFILLMENT or a later state: none for a
\* request whose payment is still awaited or has failed, one for every
\* request whose payment was confirmed.
C30_SaleIffPaymentConfirmed ==
    \A id \in IDs :
        sales[id].exists <=> transactions[id] \notin UnconfirmedStatuses

\* A request whose payment failed, and was never confirmed, has a sale document
C30_SaleOfFailedPayment ==
    \E id \in IDs :
        /\ sales[id].exists
        /\ transactions[id] = "MPESA_PAYMENT_FAILED"
        /\ \A cb \in delivered : ~(cb[2] = id /\ cb[3] = 0)

---------------------------------------------------------------------------
\* C31

\* A provider call of the fulfilment came back without success: the dealer
\* call, or an aggregator call after which the fulfilment took the failure path
ProviderCallFailed(i) ==
    \/ runs[i].dealerResult = "FAILED"
    \/ runs[i].atCalls > 0 /\ runs[i].dispatch # "COMPLETED"

\* C31: once a fulfilment has returned, every provider call of it that ended
\* without success has an entry in the error store for its transaction, the
\* dealer failure that a successful aggregator fallback followed included.
C31_FailedProviderCallIsOnRecord ==
    \A i \in DOMAIN runs :
        (runs[i].pc = "done" /\ ProviderCallFailed(i))
           => \E e \in errors : e.transactionId = runs[i].id

\* The dealer call failed, the fallback delivered, the fulfilment returned,
\* and the error store is empty
C31_DealerFailureLeftNoRecord ==
    \E i \in DOMAIN runs :
        /\ runs[i].pc = "done"
        /\ runs[i].dealerResult = "FAILED"
        /\ runs[i].provider = "AfricasTalkingFallback"
        /\ runs[i].dispatch = "COMPLETED"
        /\ errors = {}

\* A fulfilment whose last provider call failed has its AIRTIME_DISPATCH_FAILED
\* entry when it returns
C31_UltimateFailureIsOnRecord ==
    \A i \in DOMAIN runs :
        (runs[i].pc = "done" /\ runs[i].atCalls > 0 /\ runs[i].dispatch # "COMPLETED"
            /\ runs[i].thrown = "NONE")
           => ErrorRecord("AIRTIME_FULFILLMENT_ERROR", "AIRTIME_DISPATCH_FAILED", runs[i].id)
                 \in errors

---------------------------------------------------------------------------
\* C32

\* A payment callback that matches no stored request or has no callback
\* structure, handled by either handler of the route
UnmatchedCallbackHandled(id) ==
    \/ StkCallbackUnknown(id)
    \/ StkCallbackMalformed
    \/ StkCallbackNoMatch(id)
    \/ StkCallbackIgnored

\* C32: a payment callback whose id matches no stored request, or whose body
\* lacks the callback structure, is acknowledged, leaves an error record of
\* type STK_CALLBACK_ERROR, and changes no transaction, sale or float.
C32_UnmatchedCallbackRecorded ==
    [][\A id \in IDs :
          UnmatchedCallbackHandled(id)
             => /\ response' = Response("/stk-callback", 200, 0)
                /\ \E e \in errors' : e.type = "STK_CALLBACK_ERROR"
                /\ UNCHANGED <<transactions, sales, floats>>]_vars

\* With no request stored at all, a callback was acknowledged and the error
\* store is empty
C32_UnmatchedAcknowledgedWithoutRecord ==
    /\ npushes = 0
    /\ ncallbacks = 1
    /\ response = Response("/stk-callback", 200, 0)
    /\ errors = {}

\* The handler of server.js records and acknowledges the callback for an
\* unknown id, and no handler changes a transaction, sale or float on an
\* unmatched callback
C32_UnknownIdRecordedInCore ==
    [][\A id \in IDs :
          /\ StkCallbackUnknown(id)
                => /\ response' = Response("/stk-callback", 200, 0)
                   /\ ErrorRecord("STK_CALLBACK_ERROR", "NONE", id) \in errors'
          /\ UnmatchedCallbackHandled(id) => UNCHANGED <<transactions, sales, floats>>]_vars

---------------------------------------------------------------------------
\* C33

\* A payment callback with result code 0 has been delivered for the id
PaymentConfirmed(id) ==
    \E cb \in delivered : cb[1] = "stk" /\ cb[2] = id /\ cb[3] = 0

\* A pending-reversal or reversal-failed record exists for the id
HasReversalRecord(id) ==
    reconciled[id] # "NO_DOC" \/ failedRecon[id] # {}

\* C33: a pending-reversal record or a reversal-failed record exists only for
\* ids whose payment was confirmed: none for an id whose payment callback
\* carried a non-zero result code or has not arrived, whatever reversal
\* callbacks are delivered.
C33_ReversalRecordsOnlyForConfirmedPayments ==
    \A id \in IDs : HasReversalRecord(id) => PaymentConfirmed(id)

\* A payment failed, was never confirmed, and a reversal-failed record
\* stands under its id
C33_ReversalFailedRecordOfFailedPayment ==
    \E id \in IDs :
        /\ <<"stk", id, 1032, 0>> \in delivered
        /\ ~PaymentConfirmed(id)
        /\ "REVERSAL_FAILED_CONFIRMATION" \in failedRecon[id]

\* The fulfilment itself writes its reversal records for confirmed payments
\* only, and no pending-reversal record exists without a confirmed payment
C33_FulfilmentRecordsOnlyForConfirmed ==
    [][\A id \in IDs :
          LET confirmed == \E cb \in delivered' :
                              cb[1] = "stk" /\ cb[2] = id /\ cb[3] = 0
          IN  /\ reconciled'[id] # "NO_DOC" => confirmed
              /\ (failedRecon'[id] # failedRecon[id]
                    /\ ~(DarajaReversalResult(id, 0) \/ DarajaReversalResult(id, 1)))
                    => confirmed]_vars

---------------------------------------------------------------------------
\* A request for the bearer token, and one for the dealer service PIN
TokenRequested ==
    \E delay \in Delays, grant \in GrantLifetimes \cup {0} :
      GetCachedAirtimeToken(delay, grant)

PinRequested ==
    \E delay \in Delays, servicePin \in StorePins \cup {"NONE"} :
      GetDealerServicePin(delay, servicePin)

\* The request is answered from the cache, without a fetch
AnsweredFromCache == ~credentialCalls'.fetched

\* C34: a dealer service PIN fetched at time t is returned from the cache
\* without a read of the store at every request before t + 10 minutes and is
\* fetched again at or after t + 10 minutes; a bearer token fetched at time t
\* is reused only before t plus the lifetime the grant response advertised
\* (less a safety margin), and is fetched again after that.
C34_CredentialCacheTiming ==
    [][ /\ (PinRequested /\ cachedDealerServicePin # "NONE")
            => (AnsweredFromCache
                  <=> now' < credentialCalls.pinFetchedAt + DEALER_PIN_CACHE_TTL)
        /\ (TokenRequested /\ cachedAirtimeToken # 0)
            => (AnsweredFromCache
                  => now' < credentialCalls.tokenFetchedAt + credentialCalls.advertised)
      ]_vars

\* A token is handed out from the cache at or after the end of the lifetime its
\* grant advertised
C34_TokenReusedPastAdvertisedLifetime ==
    /\ credentialCalls.last = "token"
    /\ ~credentialCalls.fetched
    /\ credentialCalls.token # 0
    /\ now >= credentialCalls.tokenFetchedAt + credentialCalls.advertised

\* What the caches do keep: the PIN for ten minutes exactly, the token for 3599
\* seconds whatever the grant advertised
C34_PinTimingAndFixedTokenLifetime ==
    [][ /\ (PinRequested /\ cachedDealerServicePin # "NONE")
            => (AnsweredFromCache
                  <=> now' < credentialCalls.pinFetchedAt + DEALER_PIN_CACHE_TTL)
        /\ (TokenRequested /\ cachedAirtimeToken # 0)
            => (AnsweredFromCache
                  <=> now' < credentialCalls.tokenFetchedAt + TokenCacheSeconds)
      ]_vars

---------------------------------------------------------------------------
\* The float balances before the first fulfilment: only fulfilments write
\* the float records
InitialFloat(f) == runs[1].start[f].balance

\* The sum of the deltas of the ledger adjustments that succeeded on float f
\* in the runs 1..n
RECURSIVE AdjustedBy(_, _)
AdjustedBy(f, n) ==
    IF n = 0 THEN 0
    ELSE (IF f = "safaricomFloat" THEN runs[n].dSaf ELSE runs[n].dAt)
         + AdjustedBy(f, n - 1)

AllFinished == runs # <<>> /\ \A i \in DOMAIN runs : runs[i].pc = "done"

\* C35: every write to a float record is atomic with its read, so that no
\* float movement is lost: when all fulfilments have finished, each float
\* balance is its initial value plus the sum of the deltas of the adjustments
\* that succeeded, also when one run overwrites the home float with a reported
\* balance while another run's debit is in flight.
C35_NoFloatMovementLost ==
    AllFinished =>
        \A f \in FloatNames :
            /\ floats[f].isNum
            /\ floats[f].balance = InitialFloat(f) + AdjustedBy(f, Len(runs))

\* Two dealer-direct fulfilments, each told by the dealer the balance the
\* ledger had when its own request was served.  The first was served before
\* the second debited and overwrote after the second had finished its writes:
\* the home float holds the first run's balance and the second debit is gone.
C35_DebitLostToOverwrite ==
    \E i, j \in DOMAIN runs :
        /\ i # j
        /\ AllFinished
        /\ DealerReportedBalance(i) /\ DealerReportedBalance(j)
        /\ \A id \in IDs : OverwriteWarning(id) \notin errors
        /\ runs[i].dSaf = 0 - runs[i].final
        /\ runs[j].dSaf = 0 - runs[j].final
        /\ runs[i].reported.balance = InitialFloat("safaricomFloat") - runs[i].final
        /\ runs[j].reported.balance
              = InitialFloat("safaricomFloat") - runs[i].final - runs[j].final
        /\ floats["safaricomFloat"] = FloatDoc(runs[i].reported.balance)
        /\ floats["safaricomFloat"].balance
              # InitialFloat("safaricomFloat") + AdjustedBy("safaricomFloat", Len(runs))

\* The ledger adjustments themselves, each a store transaction, lose nothing:
\* where no dealer response led to an overwrite, the balances are the initial
\* ones plus the deltas.
C35_AdjustmentsAloneLoseNothing ==
    (AllFinished /\ \A i \in DOMAIN runs : ~runs[i].reported.has) =>
        \A f \in FloatNames :
            /\ floats[f].isNum
            /\ floats[f].balance = InitialFloat(f) + AdjustedBy(f, Len(runs))

---------------------------------------------------------------------------
\* Run i is at the step after a dealer-direct success at which the reported
\* balance is written to the home float, and takes it
OverwriteStep(i) == FulfillOverwrite(i) \/ FulfillOverwriteThrows(i)

\* The dealer reported a balance other than the home float's, which the
\* debit of run i has left
ReportedBalanceDiffers(i) ==
    /\ DealerReportedBalance(i)
    /\ floats["safaricomFloat"].isNum
    /\ runs[i].reported.balance # floats["safaricomFloat"].balance

WarningsFor(id) ==
    {e \in errors : e.type = "FLOAT_RECONCILIATION_WARNING" /\ e.transactionId = id}

\* C36: whenever the balance reported by a successful dealer-direct response
\* differs from the local home-float balance after the debit, the fulfilment
\* has written an error record of type FLOAT_RECONCILIATION_WARNING for that
\* transaction by the time it has dealt with the reported balance.
C36_DriftWritesWarning ==
    [][\A i \in DOMAIN runs :
          (OverwriteStep(i) /\ ReportedBalanceDiffers(i))
             => \E e \in errors' :
                   /\ e.type = "FLOAT_RECONCILIATION_WARNING"
                   /\ e.transactionId = runs[i].id]_vars

\* A lone fulfilment has finished; the dealer reported a balance other than
\* the ledger's, the home float was set to it, and no warning is on record
C36_DriftLeftNoWarning ==
    \E i \in DOMAIN runs :
        /\ DOMAIN runs = {i}
        /\ runs[i].pc = "done"
        /\ DealerReportedBalance(i)
        /\ runs[i].reported.balance # runs[i].start["safaricomFloat"].balance - runs[i].final
        /\ floats["safaricomFloat"] = FloatDoc(runs[i].reported.balance)
        /\ WarningsFor(runs[i].id) = {}

\* What the code does: the warning is written exactly when the store refuses
\* the overwrite, whether or not the balances differ
C36_WarningIffOverwriteRefused ==
    [][\A i \in DOMAIN runs :
          /\ FulfillOverwriteThrows(i)
                => /\ OverwriteWarning(runs[i].id) \in errors'
                   /\ floats' = floats
          /\ FulfillOverwrite(i) => errors' = errors]_vars

---------------------------------------------------------------------------
\* A provider delivered the airtime of request id
ToppedUp(id) ==
    \E i \in DOMAIN runs : runs[i].id = id /\ runs[i].dispatch = "COMPLETED"

\* A reversal of the payment of request id was submitted to the rail and
\* accepted
ReversalSubmitted(id) == audit[id].reversalsAccepted > 0

\* C37: no request has both a successful airtime delivery and a submitted
\* reversal request, whatever payment callbacks are delivered for its id,
\* duplicate and overlapping ones included.
C37_NeverToppedUpAndReversed ==
    \A id \in IDs : ~(ToppedUp(id) /\ ReversalSubmitted(id))

\* The payment callback of one request was delivered twice; the fulfilment
\* of one delivery topped the customer up, that of the other failed at
\* dispatch and had its reversal accepted by the rail
C37_DuplicateToppedUpAndReversed ==
    \E i, j \in DOMAIN runs :
        /\ i # j
        /\ runs[i].id = runs[j].id
        /\ runs[i].pc = "done" /\ runs[j].pc = "done"
        /\ runs[i].dispatch = "COMPLETED"
        /\ runs[j].result = "FAILED_DISPATCH_API"
        /\ runs[j].reversals = 1
        /\ ReversalSubmitted(runs[j].id)

\* Within one fulfilment the two exclude each other: a run that delivered
\* submits no reversal
C37_OneFulfilmentNeverBoth ==
    \A i \in DOMAIN runs : runs[i].dispatch = "COMPLETED" => runs[i].reversals = 0

---------------------------------------------------------------------------
\* Run i submits its reversal request
SubmitsReversal(i) == runs[i].pc = "reverse" /\ runs'[i].pc = "done"

\* C38: every reversal request submitted for a request carries the original
\* amount the customer paid, never the dispatched amount (original plus
\* bonus), and the request-id of the payment being reversed.
C38_ReversalCarriesOriginalAmountAndId ==
    [][\A i \in DOMAIN runs :
          SubmitsReversal(i) =>
             /\ runs'[i].reversal.Amount = sales[runs[i].id].amount
             /\ runs'[i].reversal.Amount = runs[i].amount
             /\ runs'[i].reversal.TransactionID = runs[i].id
             /\ <<"stk", runs[i].id, 0, runs'[i].reversal.Amount>> \in delivered]_vars

\* A dispatch with a bonus failed at the providers, and the reversal submitted
\* for it asks for the amount paid, which is less than the amount dispatched
C38_ReversalOfBonusedDispatch ==
    \E i \in DOMAIN runs :
        /\ runs[i].pc = "done"
        /\ runs[i].reversals = 1
        /\ runs[i].bonus > 0
        /\ runs[i].final > runs[i].amount
        /\ runs[i].sent > 0
        /\ runs[i].reversal = ReversalPayload(runs[i].id, runs[i].amount)

---------------------------------------------------------------------------
\* The dealer delivered in run i and its response carried no parsable balance
DealerReportedNoBalance(i) ==
    /\ runs[i].provider = "SafaricomDealer"
    /\ runs[i].dealerResult = "SUCCESS"
    /\ ~runs[i].reported.isNum

\* C39: when a successful dealer-direct response carries no parsable new
\* balance, the home float keeps the numeric balance the debit left: the
\* step that deals with the reported balance leaves the float record as it
\* was, so that the stored balance stays a number and later adjustments of
\* that float do not fail on an invalid balance.
C39_UnparsedBalanceKeepsFloat ==
    [][\A i \in DOMAIN runs :
          (OverwriteStep(i) /\ DealerReportedNoBalance(i) /\ floats["safaricomFloat"].isNum)
             => /\ floats'["safaricomFloat"] = floats["safaricomFloat"]
                /\ updateCarrierFloatBalance(floats'["safaricomFloat"], 0).error
                      # "INVALID_BALANCE"]_vars

\* A dealer response without a balance was followed by a write of null to the
\* home float, and the debit of a later fulfilment of a home-telco request
\* was refused for the invalid balance
C39_LaterDebitRefusedForInvalidBalance ==
    \E i, j \in DOMAIN runs :
        /\ i # j
        /\ runs[i].pc = "done"
        /\ DealerReportedNoBalance(i)
        /\ ~floats["safaricomFloat"].isNum
        /\ runs[j].provider = "SafaricomDealer"
        /\ runs[j].pc \in {"failed", "reverse", "done"}
        /\ runs[j].dealerCalls = 0
        /\ runs[j].dSaf = 0
        /\ updateCarrierFloatBalance(floats["safaricomFloat"], 0 - runs[j].final).error
              = "INVALID_BALANCE"

\* The home float loses its numeric balance in no other way: every step that
\* takes it from a number to a non-number is the overwrite after a dealer
\* response without a parsable balance
C39_OnlyUnparsedOverwriteSpoilsFloat ==
    [][(floats["safaricomFloat"].isNum /\ ~floats'["safaricomFloat"].isNum)
          => \E i \in DOMAIN runs : FulfillOverwrite(i) /\ DealerReportedNoBalance(i)]_vars
====
